---------------------------- MODULE Spec2Model ----------------------------
(***************************************************************************)
(* A model of the format-conversion engine of transform-go (pkg/convert):   *)
(* the conversion hub (ConvertFormats, FormatContent, formatGoSource), the *)
(* TOON encoder and decoder, JSON Schema inference and sampling, the       *)
(* parser of struct definitions, the functions on JSON text, and the       *)
(* user-agent version cache with its background refresh.                   *)
(*                                                                         *)
(* Text is a sequence of one-character strings, so that every string      *)
(* function of the source (TrimSpace, Cut, Split, the two regular          *)
(* expressions, strconv.Unquote) is computed character by character.       *)
(* A JSON value is a record [k |-> kind, v |-> payload]:                   *)
(*   "null"    v = << >>                                                   *)
(*   "bool"    v \in BOOLEAN                                               *)
(*   "number"  v = the literal of a json.Number (decoder with UseNumber)   *)
(*   "int64"   v = the canonical decimal numeral of the parsed integer     *)
(*   "float64" v = the decimal value [neg, digits, pos] of its numeral      *)
(*   "strings" v = a sequence of texts (a []string)                        *)
(*   "string"  v = the characters                                          *)
(*   "array"   v = a sequence of values                                    *)
(*   "map"     v = a function from keys (texts) to values                  *)
(***************************************************************************)
EXTENDS Integers, Sequences, FiniteSets, TLC

VARIABLES
    op,     \* the operation that produced this state ("init" before any)
    arg,    \* the arguments of the call under study
    mid,    \* the intermediate text of a two-step run (encoder output)
    res,    \* the result of the last operation
    latestDataMu,       \* useragent.go: the sync.RWMutex, by its holders
    latestData,         \* the *versionCache: an index into caches
    fetchInProgress,
    networkAllowed,
    caches,     \* the versionCache objects allocated so far
    now,        \* time.Now(), in hours since the Unix epoch
    callers,    \* the goroutines that call ensureLatestData
    refreshers  \* the goroutines started by triggerBackgroundFetch

\* the state of the user-agent version cache
cacheVars ==
    <<latestDataMu, latestData, fetchInProgress, networkAllowed, caches, now, callers, refreshers>>

vars == <<op, arg, mid, res, cacheVars>>

None == [k |-> "none", v |-> << >>]

-----------------------------------------------------------------------------
(* The user-agent version cache (useragent.go) before any call.             *)

\* the callers of ensureLatestData, the times the clock advances, the runs
\* of fetchLatestData, and the browser and platform sources that are fetched
MaxCallers == 2
MaxTicks == 2
MaxFetches == 2
MaxBrowsers == 2
MaxPlatforms == 1

\* 6 * time.Hour
cacheTTL == 6

\* the clock advances by half of cacheTTL
TickHours == cacheTTL \div 2

\* the keys of browserSources and of platformSources
browserSlugs == <<"vivaldi", "chrome", "firefox", "opera", "safari", "edge", "yandex">>
platformSlugs == <<"windows", "chrome-os", "macos", "ios", "android">>

\* the sources of the model: the first MaxBrowsers and MaxPlatforms of them
browserSources == {browserSlugs[i] : i \in {j \in 1..Len(browserSlugs) : j <= MaxBrowsers}}
platformSources == {platformSlugs[i] : i \in {j \in 1..Len(platformSlugs) : j <= MaxPlatforms}}

\* fallbackVersionCache(): the built-in rows of every source, fetched at the
\* epoch
fallbackVersionCache == [browsers |-> browserSources, platforms |-> platformSources, fetchedAt |-> 0]

Callers == 1..MaxCallers

\* a goroutine started by a caller; each caller has at most one call running
Refreshers == 1..MaxCallers

\* a caller outside ensureLatestData, ret being what its last call returned
IdleCaller(ret) == [pc |-> "idle", data |-> 0, expired |-> FALSE, start |-> FALSE, ret |-> ret]

\* a refresh goroutine that is not running
NoRefresher == [pc |-> "none", cache |-> 0, err |-> ""]

\* the package variables after init(), with networkAllowed as the build sets
\* it, at a time at least cacheTTL after the epoch
InitCache(allowed) ==
    /\ latestDataMu = [writer |-> {}, readers |-> {}]
    /\ caches = <<fallbackVersionCache>>
    /\ latestData = 1
    /\ fetchInProgress = FALSE
    /\ networkAllowed = allowed
    /\ now = cacheTTL
    /\ callers = [c \in Callers |-> IdleCaller(None)]
    /\ refreshers = [r \in Refreshers |-> NoRefresher]

-----------------------------------------------------------------------------
(* Go string primitives, over sequences of characters.                     *)

\* unicode.IsSpace, on the characters the model draws from
IsSpace(c) == c \in {" ", "\t", "\n", "\r", "\f"}

IsDigit(c) == c \in {"0", "1", "2", "3", "4", "5", "6", "7", "8", "9"}

\* the ASCII letters
Letters ==
    {"a", "b", "c", "d", "e", "f", "g", "h", "i", "j", "k", "l", "m", "n", "o", "p",
     "q", "r", "s", "t", "u", "v", "w", "x", "y", "z",
     "A", "B", "C", "D", "E", "F", "G", "H", "I", "J", "K", "L", "M", "N", "O", "P",
     "Q", "R", "S", "T", "U", "V", "W", "X", "Y", "Z"}

RECURSIVE TrimLeftSpace(_)
TrimLeftSpace(s) ==
    IF s = << >> THEN s
    ELSE IF IsSpace(Head(s)) THEN TrimLeftSpace(Tail(s)) ELSE s

RECURSIVE TrimRightSpace(_)
TrimRightSpace(s) ==
    IF s = << >> THEN s
    ELSE IF IsSpace(s[Len(s)]) THEN TrimRightSpace(SubSeq(s, 1, Len(s) - 1)) ELSE s

\* strings.TrimSpace
TrimSpace(s) == TrimRightSpace(TrimLeftSpace(s))

\* strings.TrimRight(s, cutset)
RECURSIVE TrimRight(_, _)
TrimRight(s, cutset) ==
    IF s = << >> THEN s
    ELSE IF s[Len(s)] \in cutset THEN TrimRight(SubSeq(s, 1, Len(s) - 1), cutset) ELSE s

\* strings.TrimLeft(s, cutset)
RECURSIVE TrimLeft(_, _)
TrimLeft(s, cutset) ==
    IF s = << >> THEN s
    ELSE IF Head(s) \in cutset THEN TrimLeft(Tail(s), cutset) ELSE s

\* strings.Trim(s, cutset)
Trim(s, cutset) == TrimRight(TrimLeft(s, cutset), cutset)

\* strings.HasPrefix / strings.HasSuffix
HasPrefix(s, p) == Len(s) >= Len(p) /\ SubSeq(s, 1, Len(p)) = p
HasSuffix(s, p) == Len(s) >= Len(p) /\ SubSeq(s, Len(s) - Len(p) + 1, Len(s)) = p

\* strings.TrimPrefix
TrimPrefix(s, p) == IF HasPrefix(s, p) THEN SubSeq(s, Len(p) + 1, Len(s)) ELSE s

\* strings.Index: the 1-based position of the first occurrence, 0 when absent
\* (Go's -1)
FirstOf(hits) == IF hits = {} THEN 0 ELSE CHOOSE i \in hits : \A j \in hits : i <= j

Index(s, p) == FirstOf({i \in 1..(Len(s) - Len(p) + 1) : SubSeq(s, i, i + Len(p) - 1) = p})

\* strings.Contains / ContainsRune / ContainsAny
Contains(s, p) == Index(s, p) # 0
ContainsRune(s, c) == \E i \in 1..Len(s) : s[i] = c
ContainsAny(s, chars) == \E i \in 1..Len(s) : s[i] \in chars

\* strings.Cut: before, after, found
CutAt(s, sep, i) ==
    IF i = 0 THEN [before |-> s, after |-> << >>, found |-> FALSE]
    ELSE [before |-> SubSeq(s, 1, i - 1),
          after  |-> SubSeq(s, i + Len(sep), Len(s)),
          found  |-> TRUE]

Cut(s, sep) == CutAt(s, sep, Index(s, sep))

\* strings.Split(s, sep) for a one-character separator
RECURSIVE Split(_, _)
Split(s, c) ==
    IF ~ContainsRune(s, c) THEN <<s>>
    ELSE <<Cut(s, <<c>>).before>> \o Split(Cut(s, <<c>>).after, c)

\* strings.ReplaceAll(s, "\r\n", "\n")
RECURSIVE ReplaceCRLF(_)
ReplaceCRLF(s) ==
    IF s = << >> THEN s
    ELSE IF HasPrefix(s, <<"\r", "\n">>) THEN <<"\n">> \o ReplaceCRLF(SubSeq(s, 3, Len(s)))
    ELSE <<Head(s)>> \o ReplaceCRLF(Tail(s))

\* strings.Join
RECURSIVE Join(_, _)
Join(parts, sep) ==
    IF parts = << >> THEN << >>
    ELSE IF Len(parts) = 1 THEN parts[1]
    ELSE parts[1] \o sep \o Join(Tail(parts), sep)

\* strings.Repeat
RECURSIVE Repeat(_, _)
Repeat(s, n) == IF n <= 0 THEN << >> ELSE s \o Repeat(s, n - 1)

\* the concatenation of a sequence of texts
RECURSIVE Concat(_)
Concat(parts) == IF parts = << >> THEN << >> ELSE Head(parts) \o Concat(Tail(parts))

\* the ASCII characters in byte order: Bytes[n] is the character of byte n
Bytes ==
    <<"<U+0001>", "<U+0002>", "<U+0003>", "<U+0004>", "<U+0005>", "<U+0006>", "<U+0007>", "<U+0008>", "\t",
       "\n", "<U+000B>", "\f", "\r", "<U+000E>", "<U+000F>", "<U+0010>", "<U+0011>", "<U+0012>",
       "<U+0013>", "<U+0014>", "<U+0015>", "<U+0016>", "<U+0017>", "<U+0018>", "<U+0019>", "<U+001A>", "<U+001B>",
       "<U+001C>", "<U+001D>", "<U+001E>", "<U+001F>", " ", "!", "\"", "#", "$",
       "%", "&", "'", "(", ")", "*", "+", ",", "-",
       ".", "/", "0", "1", "2", "3", "4", "5", "6",
       "7", "8", "9", ":", ";", "<", "=", ">", "?",
       "@", "A", "B", "C", "D", "E", "F", "G", "H",
       "I", "J", "K", "L", "M", "N", "O", "P", "Q",
       "R", "S", "T", "U", "V", "W", "X", "Y", "Z",
       "[", "\\", "]", "^", "_", "<U+0060>", "a", "b", "c",
       "d", "e", "f", "g", "h", "i", "j", "k", "l",
       "m", "n", "o", "p", "q", "r", "s", "t", "u",
       "v", "w", "x", "y", "z", "{", "|", "}", "~" >>

\* the byte of an ASCII character (sort.Strings orders texts byte-wise); a
\* character outside ASCII sorts after every ASCII one
CharCode(c) == FirstOf({n \in 1..255 : n = 255 \/ (n <= Len(Bytes) /\ Bytes[n] = c)})

RECURSIVE StrLess(_, _)
RECURSIVE LessFrom(_, _, _, _)

\* a < b for texts whose first bytes are x and y
LessFrom(x, y, a, b) == IF x # y THEN x < y ELSE StrLess(Tail(a), Tail(b))

\* a < b, byte-wise
StrLess(a, b) ==
    IF b = << >> THEN FALSE
    ELSE IF a = << >> THEN TRUE
    ELSE LessFrom(CharCode(Head(a)), CharCode(Head(b)), a, b)

-----------------------------------------------------------------------------
(* Scalars: numberPattern, needsQuote, quoteString, formatPrimitive,       *)
(* strconv.Unquote, strconv.ParseInt/ParseFloat and parsePrimitiveToken.   *)

AllDigits(s) == \A i \in 1..Len(s) : IsDigit(s[i])

\* the position after the run of digits that starts at i
RECURSIVE SkipDigits(_, _)
SkipDigits(s, i) == IF i <= Len(s) /\ IsDigit(s[i]) THEN SkipDigits(s, i + 1) ELSE i

\* numberPattern, ^-?(?:0|[1-9]\d*)(?:\.\d+)?(?:[eE][+-]?\d+)?$ : the position
\* after each group, given the position i after the group before it; 0 once
\* the match has failed
NumAfterSign(s) == IF Len(s) >= 1 /\ s[1] = "-" THEN 2 ELSE 1

NumAfterInt(s, i) ==
    IF i > Len(s) \/ ~IsDigit(s[i]) THEN 0
    ELSE IF s[i] = "0" THEN i + 1
    ELSE SkipDigits(s, i + 1)

NumAfterFrac(s, i) ==
    IF i = 0 THEN 0
    ELSE IF i + 1 <= Len(s) /\ s[i] = "." /\ IsDigit(s[i + 1]) THEN SkipDigits(s, i + 2)
    ELSE i

\* the first digit of an exponent that starts at i
ExpDigitsAt(s, i) == IF i + 1 <= Len(s) /\ s[i + 1] \in {"+", "-"} THEN i + 2 ELSE i + 1

NumAfterExp(s, i) ==
    IF i = 0 THEN 0
    ELSE IF i <= Len(s) /\ s[i] \in {"e", "E"}
            /\ ExpDigitsAt(s, i) <= Len(s) /\ IsDigit(s[ExpDigitsAt(s, i)])
         THEN SkipDigits(s, ExpDigitsAt(s, i) + 1)
    ELSE i

\* the positions after the integer and after the fraction of a numeral
IntEnd(s) == NumAfterInt(s, NumAfterSign(s))
FracEnd(s) == NumAfterFrac(s, IntEnd(s))

numberPattern(s) == NumAfterExp(s, FracEnd(s)) = Len(s) + 1

\* needsQuote with the check for the reserved words left out
needsQuoteNoReserved(s, delim) ==
    \/ s = << >>
    \/ TrimSpace(s) # s
    \/ numberPattern(s)
    \/ ContainsAny(s, {":", "\"", "\\", "[", "]", "{", "}"})
    \/ ContainsRune(s, "\n") \/ ContainsRune(s, "\r") \/ ContainsRune(s, "\t")
    \/ ContainsRune(s, delim)
    \/ HasPrefix(s, <<"-">>)

\* needsQuote with the check for a leading '-' left out
needsQuoteNoDash(s, delim) ==
    \/ s = << >>
    \/ TrimSpace(s) # s
    \/ s \in {<<"t", "r", "u", "e">>, <<"f", "a", "l", "s", "e">>, <<"n", "u", "l", "l">>}
    \/ numberPattern(s)
    \/ ContainsAny(s, {":", "\"", "\\", "[", "]", "{", "}"})
    \/ ContainsRune(s, "\n") \/ ContainsRune(s, "\r") \/ ContainsRune(s, "\t")
    \/ ContainsRune(s, delim)

needsQuote(s, delim) ==
    \/ s = << >>
    \/ TrimSpace(s) # s
    \/ s \in {<<"t", "r", "u", "e">>, <<"f", "a", "l", "s", "e">>, <<"n", "u", "l", "l">>}
    \/ numberPattern(s)
    \/ ContainsAny(s, {":", "\"", "\\", "[", "]", "{", "}"})
    \/ ContainsRune(s, "\n") \/ ContainsRune(s, "\r") \/ ContainsRune(s, "\t")
    \/ ContainsRune(s, delim)
    \/ HasPrefix(s, <<"-">>)

\* the strings.Replacer of quoteString, one character at a time
QuoteChar(c) ==
    CASE c = "\"" -> <<"\\", "\"">>
      [] c = "\\" -> <<"\\", "\\">>
      [] c = "\n" -> <<"\\", "n">>
      [] c = "\r" -> <<"\\", "r">>
      [] c = "\t" -> <<"\\", "t">>
      [] OTHER -> <<c>>

quoteString(s) == <<"\"">> \o Concat([i \in 1..Len(s) |-> QuoteChar(s[i])]) \o <<"\"">>

\* formatPrimitive; JSONToTOON decodes with UseNumber, so a number arrives as
\* a json.Number and is written as its literal
formatPrimitive(value, delim) ==
    CASE value.k = "null" -> <<"n", "u", "l", "l">>
      [] value.k = "bool" -> IF value.v THEN <<"t", "r", "u", "e">>
                             ELSE <<"f", "a", "l", "s", "e">>
      [] value.k = "number" -> value.v
      [] value.k = "string" -> IF needsQuote(value.v, delim) THEN quoteString(value.v)
                               ELSE value.v
      [] OTHER -> value.v

IsOctal(c) == c \in {"0", "1", "2", "3", "4", "5", "6", "7"}
IsHex(c) == IsDigit(c) \/ c \in {"a", "b", "c", "d", "e", "f", "A", "B", "C", "D", "E", "F"}
AllHex(s) == \A i \in 1..Len(s) : IsHex(s[i])

SimpleEscapes == {"n", "r", "t", "\\", "\"", "a", "b", "f", "v"}

\* the character a one-letter escape of strconv.UnquoteChar stands for
EscapeValue(c) ==
    CASE c = "n" -> "\n" [] c = "r" -> "\r" [] c = "t" -> "\t" [] c = "f" -> "\f"
      [] c = "\\" -> "\\" [] c = "\"" -> "\""
      [] c = "a" -> "<U+0007>" [] c = "b" -> "<U+0008>" [] c = "v" -> "<U+000B>"
      [] OTHER -> "<invalid>"

\* the character of a three-digit octal escape
OctalValue(a, b, c) ==
    CASE <<a, b, c>> = <<"0", "1", "1">> -> "\t"
      [] <<a, b, c>> = <<"0", "1", "2">> -> "\n"
      [] <<a, b, c>> = <<"0", "4", "0">> -> " "
      [] <<a, b, c>> = <<"1", "0", "1">> -> "A"
      [] <<a, b, c>> = <<"1", "4", "1">> -> "a"
      [] OTHER -> "<octal>"   \* some other byte; which one is not tracked

UnquoteFail == [ok |-> FALSE, out |-> << >>, rest |-> << >>]

\* the body of strconv.unquote for a double-quoted literal, after the opening
\* quote: characters are copied up to the first unescaped quote; a raw newline
\* or a bad escape is a syntax error
RECURSIVE UnquoteBody(_, _)
UnquoteBody(in, acc) ==
    IF in = << >> THEN UnquoteFail
    ELSE IF Head(in) = "\"" THEN [ok |-> TRUE, out |-> acc, rest |-> Tail(in)]
    ELSE IF Head(in) = "\n" THEN UnquoteFail
    ELSE IF Head(in) # "\\" THEN UnquoteBody(Tail(in), Append(acc, Head(in)))
    ELSE IF Len(in) < 2 THEN UnquoteFail
    ELSE IF in[2] \in SimpleEscapes
         THEN UnquoteBody(SubSeq(in, 3, Len(in)), Append(acc, EscapeValue(in[2])))
    ELSE IF IsOctal(in[2])
         THEN IF Len(in) >= 4 /\ IsOctal(in[3]) /\ IsOctal(in[4]) /\ in[2] \in {"0", "1", "2", "3"}
              THEN UnquoteBody(SubSeq(in, 5, Len(in)), Append(acc, OctalValue(in[2], in[3], in[4])))
              ELSE UnquoteFail
    ELSE IF in[2] = "x"
         THEN IF Len(in) >= 4 /\ AllHex(SubSeq(in, 3, 4))
              THEN UnquoteBody(SubSeq(in, 5, Len(in)), Append(acc, "<hex>"))
              ELSE UnquoteFail
    ELSE IF in[2] = "u"
         THEN IF Len(in) >= 6 /\ AllHex(SubSeq(in, 3, 6))
              THEN UnquoteBody(SubSeq(in, 7, Len(in)), Append(acc, "<hex>"))
              ELSE UnquoteFail
    ELSE UnquoteFail

\* strconv.Unquote of a token that starts with a double quote: ok and the
\* unquoted text; text after the closing quote is a syntax error
UnquoteWhole(r) == IF r.ok /\ r.rest = << >> THEN r ELSE UnquoteFail

Unquote(s) == IF Len(s) < 2 THEN UnquoteFail ELSE UnquoteWhole(UnquoteBody(Tail(s), << >>))

Int64Max == <<"9","2","2","3","3","7","2","0","3","6","8","5","4","7","7","5","8","0","7">>
Int64MinAbs == <<"9","2","2","3","3","7","2","0","3","6","8","5","4","7","7","5","8","0","8">>

\* strconv.ParseInt(token, 10, 64) succeeds, for a token of numberPattern
\* without '.', 'e', 'E'
\* a run of digits is at most the run limit, both without leading zeros
AtMost(digits, limit) ==
    \/ Len(digits) < Len(limit)
    \/ Len(digits) = Len(limit) /\ ~StrLess(limit, digits)

ParseIntOk(token) ==
    AtMost(IF HasPrefix(token, <<"-">>) THEN Tail(token) ELSE token,
           IF HasPrefix(token, <<"-">>) THEN Int64MinAbs ELSE Int64Max)

\* the integer ParseInt returns, as its canonical numeral (-0 is 0)
ParseIntValue(token) == IF token = <<"-", "0">> THEN <<"0">> ELSE token

RECURSIVE DigitsToInt(_)
DigitsToInt(d) ==
    IF d = << >> THEN 0 ELSE 10 * DigitsToInt(SubSeq(d, 1, Len(d) - 1)) + (CharCode(d[Len(d)]) - 48)

\* the magnitude of an exponent without its leading zeros; beyond four
\* digits every exponent is out of the range of float64 alike
ExpMagnitude(d) == IF Len(d) > 4 THEN 99999 ELSE DigitsToInt(d)

\* the exponent of a numeral, from the text after its 'e'
ExpValue(expText) ==
    (IF HasPrefix(expText, <<"-">>) THEN -1 ELSE 1)
        * ExpMagnitude(TrimLeft(TrimLeft(expText, {"+", "-"}), {"0"}))

Zero == [neg |-> FALSE, digits |-> << >>, pos |-> 0]

\* the decimal with the digits all (integer and fraction digits), lead being
\* all without its leading zeros, and the power of ten pos of the first
\* digit of lead
Significand(neg, lead, pos) ==
    IF TrimRight(lead, {"0"}) = << >> THEN Zero
    ELSE [neg |-> neg, digits |-> TrimRight(lead, {"0"}), pos |-> pos]

\* the decimal of a numeral whose integer digits are at i0..i1-1 and whose
\* fraction and exponent end before i2 and at the end of the token
DecimalAt(token, i0, i1, i2, all) ==
    Significand(HasPrefix(token, <<"-">>), TrimLeft(all, {"0"}),
                ExpValue(IF i2 <= Len(token) THEN SubSeq(token, i2 + 1, Len(token)) ELSE << >>)
                    + (i1 - i0) - 1 - (Len(all) - Len(TrimLeft(all, {"0"}))))

\* the decimal value of a numeral of numberPattern: sign, significant digits
\* (no leading or trailing zero) and the power of ten of the first of them;
\* zero is [neg |-> FALSE, digits |-> << >>, pos |-> 0]
DecimalFrom(token, i0, i1, i2) ==
    DecimalAt(token, i0, i1, i2,
              SubSeq(token, i0, i1 - 1) \o (IF i2 > i1 THEN SubSeq(token, i1 + 1, i2 - 1) ELSE << >>))

Decimal(token) ==
    DecimalFrom(token, NumAfterSign(token), IntEnd(token), FracEnd(token))

Float64MaxDigits == <<"1","7","9","7","6","9","3","1","3","4","8","6","2","3","1","5","8">>

\* strconv.ParseFloat on a numeral whose decimal value is d: a range error
\* only on overflow; a magnitude below the smallest float64 is 0, without an
\* error (binary rounding is not modelled)
FloatOf(d) ==
    [ok |-> d.pos < 308 \/ (d.pos = 308 /\ StrLess(d.digits, Float64MaxDigits)),
     value |-> IF d.pos < -324 THEN Zero ELSE d]

\* strconv.ParseFloat(token, 64): ok and the float, as a decimal
ParseFloat(token) == FloatOf(Decimal(token))

\* the value of a token that numberPattern matches, given ParseFloat's result
\* for a token with '.', 'e' or 'E' and ParseInt's for any other
NumberToken(token, isFloat, f) ==
    IF isFloat /\ f.ok THEN [k |-> "float64", v |-> f.value]
    ELSE IF ~isFloat /\ ParseIntOk(token) THEN [k |-> "int64", v |-> ParseIntValue(token)]
    ELSE [k |-> "string", v |-> token]

\* the value of a token in double quotes, given strconv.Unquote's result
QuotedToken(token, u) ==
    IF u.ok THEN [k |-> "string", v |-> u.out] ELSE [k |-> "string", v |-> token]

\* parsePrimitiveToken after strings.TrimSpace
TrimmedToken(token) ==
    IF token = << >> THEN [k |-> "string", v |-> << >>]
    ELSE IF HasPrefix(token, <<"\"">>) /\ HasSuffix(token, <<"\"">>)
         THEN QuotedToken(token, Unquote(token))
    ELSE IF token = <<"t", "r", "u", "e">> THEN [k |-> "bool", v |-> TRUE]
    ELSE IF token = <<"f", "a", "l", "s", "e">> THEN [k |-> "bool", v |-> FALSE]
    ELSE IF token = <<"n", "u", "l", "l">> THEN [k |-> "null", v |-> << >>]
    ELSE IF numberPattern(token)
         THEN NumberToken(token, ContainsAny(token, {".", "e", "E"}), ParseFloat(token))
    ELSE [k |-> "string", v |-> token]

parsePrimitiveToken(tok) == TrimmedToken(TrimSpace(tok))

\* the number a value stands for
NumericValue(value) == IF value.k = "float64" THEN value.v ELSE Decimal(value.v)

-----------------------------------------------------------------------------
(* The TOON encoder: JSONToTOON, writeTOON and the functions it calls.     *)
(* Each write function is the text it appends to the strings.Builder.      *)

toonIndent == <<" ", " ">>

DigitChar(d) ==
    CASE d = 0 -> "0" [] d = 1 -> "1" [] d = 2 -> "2" [] d = 3 -> "3" [] d = 4 -> "4"
      [] d = 5 -> "5" [] d = 6 -> "6" [] d = 7 -> "7" [] d = 8 -> "8" [] d = 9 -> "9"

\* fmt's %d of a length
RECURSIVE FormatInt(_)
FormatInt(n) == IF n < 10 THEN <<DigitChar(n)>> ELSE FormatInt(n \div 10) \o <<DigitChar(n % 10)>>

\* writeIndent
writeIndent(depth) == Repeat(toonIndent, depth)

IsMap(value) == value.k = "map"
IsArray(value) == value.k = "array"

\* sort.Strings of a set of keys
RECURSIVE SortStrings(_)
RECURSIVE SortedFrom(_, _)

\* the sorted keys, least being the least of them
SortedFrom(keys, least) == <<least>> \o SortStrings(keys \ {least})

SortStrings(keys) ==
    IF keys = {} THEN << >>
    ELSE SortedFrom(keys, CHOOSE x \in keys : \A y \in keys \ {x} : StrLess(x, y))

\* orderedKeys
orderedKeys(m) == SortStrings(DOMAIN m)

\* allPrimitives
allPrimitives(arr) == \A i \in 1..Len(arr) : ~IsMap(arr[i]) /\ ~IsArray(arr[i])

\* sameFieldSet without the length test: the fields are among the keys
sameFieldSetSubset(fields, obj) ==
    \A i \in 1..Len(fields) : fields[i] \in DOMAIN obj

\* sameFieldSet
sameFieldSet(fields, obj) ==
    /\ Len(fields) = Cardinality(DOMAIN obj)
    /\ \A i \in 1..Len(fields) : fields[i] \in DOMAIN obj

NotTabular == [fields |-> << >>, rows |-> << >>, ok |-> FALSE]

\* detectTabular once the first element is a map with the sorted keys fields
TabularOver(arr, fields) ==
    IF \E i \in 2..Len(arr) : ~IsMap(arr[i]) \/ ~sameFieldSet(fields, arr[i].v)
    THEN NotTabular
    ELSE IF \E i \in 1..Len(arr) : \E f \in 1..Len(fields) :
               \/ fields[f] \notin DOMAIN arr[i].v
               \/ IsMap(arr[i].v[fields[f]])
               \/ IsArray(arr[i].v[fields[f]])
    THEN NotTabular
    ELSE [fields |-> fields, rows |-> [i \in 1..Len(arr) |-> arr[i].v], ok |-> TRUE]

\* detectTabular: the sorted fields of the first element and the rows, when
\* every element is a map over those fields and no field holds a map or array
detectTabular(arr) ==
    IF Len(arr) = 0 THEN NotTabular
    ELSE IF ~IsMap(arr[1]) THEN NotTabular
    ELSE TabularOver(arr, orderedKeys(arr[1].v))

\* joinPrimitiveArray
joinPrimitiveArray(arr, delim) ==
    Join([i \in 1..Len(arr) |-> formatPrimitive(arr[i], delim)], <<delim>>)

\* the rows of a tabular block, each the indent, the values joined by ','
\* and a newline
TabularRows(fields, rows, depth) ==
    Concat([r \in 1..Len(rows) |->
               writeIndent(depth)
                   \o Join([i \in 1..Len(fields) |-> formatPrimitive(rows[r][fields[i]], ",")], <<",">>)
                   \o <<"\n">>])

\* [N]{f1,f2}: of a tabular header
TabularHeader(n, fields) ==
    <<"[">> \o FormatInt(n) \o <<"]", "{">> \o Join(fields, <<",">>) \o <<"}", ":">>

\* [N]: of an inline or list header
CountHeader(n) == <<"[">> \o FormatInt(n) \o <<"]", ":">>

RECURSIVE writeTOON(_, _, _, _)
RECURSIVE writeTOONArray(_, _, _, _)
RECURSIVE writeListEntries(_, _, _)
RECURSIVE writeListObject(_, _, _)
RECURSIVE writeInlineField(_, _, _, _)
RECURSIVE writeFieldArrayInline(_, _, _, _)
RECURSIVE writeArrayListItem(_, _, _)
RECURSIVE writeFields(_, _, _, _)
RECURSIVE writeArray(_, _, _, _, _, _, _)
RECURSIVE writeListFields(_, _, _, _)

\* the loop of writeTOON over the sorted keys of a map
writeFields(obj, keys, depth, docDelim) ==
    Concat([i \in 1..Len(keys) |-> writeTOON(keys[i], obj[keys[i]], depth, docDelim)])

writeTOON(key, value, depth, docDelim) ==
    CASE IsMap(value) ->
            (IF key # << >> THEN writeIndent(depth) \o key \o <<":", "\n">> ELSE << >>)
                \o writeFields(value.v, orderedKeys(value.v),
                               IF key # << >> THEN depth + 1 ELSE depth, docDelim)
      [] IsArray(value) -> writeTOONArray(key, value.v, depth, docDelim)
      [] OTHER ->
            writeIndent(depth) \o (IF key # << >> THEN key \o <<":", " ">> ELSE << >>)
                \o formatPrimitive(value, docDelim) \o <<"\n">>

\* the three shapes an array is written in, after the text lead (indent and
\* key, key, or "- ") and given tab, the result of detectTabular: a tabular
\* header and its rows at rowDepth; a count header and the values inline,
\* closed by inlineEnd; a count header and the list entries at listDepth
writeArray(lead, arr, tab, rowDepth, listDepth, inlineEnd, docDelim) ==
    IF tab.ok
    THEN lead \o TabularHeader(Len(arr), tab.fields) \o <<"\n">>
            \o TabularRows(tab.fields, tab.rows, rowDepth)
    ELSE IF allPrimitives(arr)
    THEN lead \o CountHeader(Len(arr)) \o <<" ">> \o joinPrimitiveArray(arr, ",") \o inlineEnd
    ELSE lead \o CountHeader(Len(arr)) \o <<"\n">> \o writeListEntries(arr, listDepth, docDelim)

writeTOONArray(key, arr, depth, docDelim) ==
    writeArray(Repeat(toonIndent, depth) \o key, arr, detectTabular(arr),
               depth + 1, depth, <<"\n">>, docDelim)

writeListEntries(items, depth, docDelim) ==
    Concat([i \in 1..Len(items) |->
        writeIndent(depth + 1) \o
            (CASE IsMap(items[i]) -> writeListObject(items[i].v, depth, docDelim)
               [] IsArray(items[i]) -> writeArrayListItem(items[i].v, depth, docDelim)
               [] OTHER -> <<"-", " ">> \o formatPrimitive(items[i], docDelim) \o <<"\n">>)])

\* writeListObject on a map with the sorted keys keys, not empty
writeListFields(obj, keys, depth, docDelim) ==
    <<"-", " ">> \o writeInlineField(keys[1], obj[keys[1]], depth, docDelim)
        \o Concat([i \in 1..(Len(keys) - 1) |->
                      <<"\n">> \o writeTOON(keys[i + 1], obj[keys[i + 1]], depth + 2, docDelim)])
        \o <<"\n">>

writeListObject(obj, depth, docDelim) ==
    IF DOMAIN obj = {} THEN <<"-", "\n">>
    ELSE writeListFields(obj, orderedKeys(obj), depth, docDelim)

writeInlineField(key, value, depth, docDelim) ==
    CASE IsMap(value) -> key \o <<":", "\n">> \o writeTOON(<< >>, value, depth + 2, docDelim)
      [] IsArray(value) -> writeFieldArrayInline(key, value.v, depth + 1, docDelim)
      [] OTHER -> key \o <<":", " ">> \o formatPrimitive(value, docDelim)

writeFieldArrayInline(key, arr, depth, docDelim) ==
    writeArray(key, arr, detectTabular(arr), depth + 1, depth, << >>, docDelim)

writeArrayListItem(arr, depth, docDelim) ==
    writeArray(<<"-", " ">>, arr, detectTabular(arr), depth + 2, depth + 1, <<"\n">>, docDelim)

\* JSONToTOON on a decoded JSON value: writeTOON from depth 0 with ',' as the
\* document delimiter, then TrimRight(_, "\n")
JSONToTOON(value) == TrimRight(writeTOON(<< >>, value, 0, ","), {"\n"})

-----------------------------------------------------------------------------
(* The TOON decoder: TOONToJSON, newToonParser and the recursive-descent   *)
(* parser.  A parse function returns [val, idx, err]: the value, the       *)
(* parser's next line index (p.idx, 1-based) and the error ("" for nil).   *)

\* countIndent: the number of leading two-space units
RECURSIVE countIndent(_)
countIndent(line) == IF HasPrefix(line, toonIndent) THEN 1 + countIndent(SubSeq(line, 3, Len(line))) ELSE 0

\* newToonParser: the non-blank lines, each with its depth, trimmed text and
\* 1-based line number
RECURSIVE ToonLines(_, _)
ToonLines(raw, i) ==
    IF i > Len(raw) THEN << >>
    ELSE IF TrimSpace(raw[i]) = << >> THEN ToonLines(raw, i + 1)
    ELSE <<[depth |-> countIndent(raw[i]), text |-> TrimSpace(raw[i]), number |-> i]>>
            \o ToonLines(raw, i + 1)

newToonParser(input) == ToonLines(Split(ReplaceCRLF(input), "\n"), 1)

IsKeyChar(c) == IsDigit(c) \/ c \in {".", "_", "\""} \/ c \in Letters

\* headerRegex, ^[A-Za-z0-9._"]*\[\d+[|\t]?\](?:\{.*\})?: , matched at the
\* start of the text: the first '[' follows key characters only, then digits,
\* an optional '|' or tab, ']', an optional {...} and ':'
HeaderClose(text, close) ==
    /\ close <= Len(text) /\ text[close] = "]"
    /\ close + 1 <= Len(text)
    /\ \/ text[close + 1] = ":"
       \/ /\ text[close + 1] = "{"
          /\ \E j \in (close + 2)..(Len(text) - 1) : text[j] = "}" /\ text[j + 1] = ":"

HeaderCount(text, open, afterDigits) ==
    /\ open # 0
    /\ \A i \in 1..(open - 1) : IsKeyChar(text[i])
    /\ afterDigits > open + 1
    /\ HeaderClose(text, IF afterDigits <= Len(text) /\ text[afterDigits] \in {"|", "\t"}
                         THEN afterDigits + 1 ELSE afterDigits)

headerRegex(text) ==
    HeaderCount(text, Index(text, <<"[">>), SkipDigits(text, Index(text, <<"[">>) + 1))

\* strconv.Atoi: an optional sign and at least one digit
AtoiOk(s) ==
    LET d == IF s # << >> /\ s[1] \in {"+", "-"} THEN Tail(s) ELSE s
    IN  d # << >> /\ AllDigits(d)

AtoiValue(s) ==
    (IF s[1] = "-" THEN -1 ELSE 1) * DigitsToInt(IF s[1] \in {"+", "-"} THEN Tail(s) ELSE s)

\* the loop of splitDelimited: a backslash sets escaped and is not written,
\* a quote toggles inQuotes and is written, the delimiter outside quotes ends
\* a cell; the last cell is appended only when it is not empty
RECURSIVE splitDelimitedLoop(_, _, _, _, _)
splitDelimitedLoop(input, delim, current, inQuotes, escaped) ==
    IF input = << >> THEN (IF Len(current) > 0 THEN <<TrimSpace(current)>> ELSE << >>)
    ELSE LET ch == Head(input)
             rest == Tail(input)
         IN  IF escaped THEN splitDelimitedLoop(rest, delim, Append(current, ch), inQuotes, FALSE)
             ELSE IF ch = "\\" THEN splitDelimitedLoop(rest, delim, current, inQuotes, TRUE)
             ELSE IF ch = "\"" THEN splitDelimitedLoop(rest, delim, Append(current, ch), ~inQuotes, FALSE)
             ELSE IF ch = delim /\ ~inQuotes
                  THEN <<TrimSpace(current)>> \o splitDelimitedLoop(rest, delim, << >>, inQuotes, FALSE)
             ELSE splitDelimitedLoop(rest, delim, Append(current, ch), inQuotes, FALSE)

splitDelimited(input, delim) == splitDelimitedLoop(input, delim, << >>, FALSE, FALSE)

EmptyMap == [k |-> "map", v |-> << >>]

\* m[key] = value on a map value
MapSet(m, key, value) == [k |-> "map", v |-> (key :> value) @@ m.v]

Fail(idx, msg) == [val |-> None, idx |-> idx, err |-> msg]

\* the row of a tabular block: field i takes cell i
RowOf(fields, values) ==
    [k |-> "map",
     v |-> [f \in {fields[i] : i \in 1..Len(fields)} |->
               parsePrimitiveToken(values[CHOOSE i \in 1..Len(fields) :
                   fields[i] = f /\ \A j \in (i + 1)..Len(fields) : fields[j] # f])]]

\* the header from its first '[' on (fromBracket, empty if there is none),
\* split at its first '{' into bracket and brace
BracketParts(header, inline, fromBracket) ==
    LET braceAt == Index(fromBracket, <<"{">>)
    IN  [inline |-> inline,
         bracketStart |-> Index(header, <<"[">>),
         brace |-> IF braceAt # 0 THEN SubSeq(fromBracket, braceAt, Len(fromBracket)) ELSE << >>,
         lengthText |-> Trim(IF braceAt # 0 THEN SubSeq(fromBracket, 1, braceAt - 1) ELSE fromBracket,
                             {"[", "]", "\t", "|"}),
         delimiter |-> IF ContainsRune(header, "\t") THEN "\t"
                       ELSE IF ContainsRune(header, "|") THEN "|" ELSE ","]

\* the text before the colon and the trimmed text after it
HeaderOf(header, inline) ==
    BracketParts(header, inline,
                 IF Index(header, <<"[">>) = 0 THEN << >>
                 ELSE SubSeq(header, Index(header, <<"[">>), Len(header)))

\* the header line taken apart as parseHeader does
HeaderParts(text) == HeaderOf(Cut(text, <<":">>).before, TrimSpace(Cut(text, <<":">>).after))

RECURSIVE parseObjectLoop(_, _, _, _)
RECURSIVE parseHeader(_, _, _)
RECURSIVE parseRows(_, _, _, _, _, _, _)
RECURSIVE parseItems(_, _, _, _)
RECURSIVE storeField(_, _, _, _, _)
RECURSIVE appendKeyed(_, _, _, _, _)
RECURSIVE appendItem(_, _, _, _)
RECURSIVE parseField(_, _, _, _, _, _)
RECURSIVE parseItem(_, _, _, _, _)
RECURSIVE parseKeyedItem(_, _, _, _, _, _)
RECURSIVE parseHeaderWith(_, _, _, _)

\* parseObject after a nested parse r: its error, or result[key] = r.val and
\* the loop goes on at the parser's index
storeField(lines, depth, result, key, r) ==
    IF r.err # "" THEN Fail(r.idx, r.err)
    ELSE parseObjectLoop(lines, r.idx, depth, MapSet(result, key, r.val))

\* the list loop after the nested object r of an item "- subKey:"
appendKeyed(lines, depth, items, subKey, r) ==
    IF r.err # "" THEN Fail(r.idx, r.err)
    ELSE parseItems(lines, r.idx, depth, Append(items, MapSet(EmptyMap, subKey, r.val)))

\* the list loop after the nested array r of an item
appendItem(lines, depth, items, r) ==
    IF r.err # "" THEN Fail(r.idx, r.err)
    ELSE parseItems(lines, r.idx, depth, Append(items, r.val))

\* the switch of parseObject on the line idx, cut at its first colon into
\* key and value
parseField(lines, idx, depth, result, key, value) ==
    IF headerRegex(lines[idx].text)
    THEN storeField(lines, depth, result, key, parseHeader(lines, idx, depth))
    ELSE IF value = << >>
    THEN storeField(lines, depth, result, key, parseObjectLoop(lines, idx + 1, depth + 1, EmptyMap))
    ELSE parseObjectLoop(lines, idx + 1, depth, MapSet(result, key, parsePrimitiveToken(value)))

\* the loop of parseObject at line idx, with the map built so far
parseObjectLoop(lines, idx, depth, result) ==
    IF idx > Len(lines) THEN [val |-> result, idx |-> idx, err |-> ""]
    ELSE IF lines[idx].depth < depth THEN [val |-> result, idx |-> idx, err |-> ""]
    ELSE IF lines[idx].depth > depth THEN Fail(idx, "unexpected indentation")
    ELSE IF HasPrefix(lines[idx].text, <<"[">>) THEN [val |-> result, idx |-> idx, err |-> ""]
    ELSE IF ~ContainsRune(lines[idx].text, ":") THEN Fail(idx, "expected key")
    ELSE parseField(lines, idx, depth, result,
                    TrimSpace(Cut(lines[idx].text, <<":">>).before),
                    TrimSpace(Cut(lines[idx].text, <<":">>).after))

\* parseObject
parseObject(lines, idx, depth) == parseObjectLoop(lines, idx, depth, EmptyMap)

\* the row loop of a tabular block: at most length rows, while lines remain
parseRows(lines, idx, depth, fields, delimiter, left, rows) ==
    IF left = 0 \/ idx > Len(lines) THEN [val |-> [k |-> "array", v |-> rows], idx |-> idx, err |-> ""]
    ELSE IF lines[idx].depth # depth + 1 THEN Fail(idx, "expected row")
    ELSE IF Len(splitDelimited(lines[idx].text, delimiter)) # Len(fields)
         THEN Fail(idx, "row width mismatch")
    ELSE parseRows(lines, idx + 1, depth, fields, delimiter, left - 1,
                   Append(rows, RowOf(fields, splitDelimited(lines[idx].text, delimiter))))

\* a list item "- subKey: rest"
parseKeyedItem(lines, idx, depth, items, subKey, rest) ==
    IF rest = << >>
    THEN appendKeyed(lines, depth, items, subKey, parseObject(lines, idx + 1, depth + 2))
    ELSE parseItems(lines, idx + 1, depth,
                    Append(items, MapSet(EmptyMap, subKey, parsePrimitiveToken(rest))))

\* a list item with the text content after its '-'
parseItem(lines, idx, depth, items, content) ==
    IF content = << >> THEN parseItems(lines, idx + 1, depth, Append(items, EmptyMap))
    ELSE IF Contains(content, <<":">>)
         THEN parseKeyedItem(lines, idx, depth, items,
                             TrimSpace(Cut(content, <<":">>).before),
                             TrimSpace(Cut(content, <<":">>).after))
    ELSE IF headerRegex(content)
         THEN appendItem(lines, depth, items, parseHeader(lines, idx, depth + 1))
    ELSE parseItems(lines, idx + 1, depth, Append(items, parsePrimitiveToken(content)))

\* the item loop of a list block
parseItems(lines, idx, depth, items) ==
    IF idx > Len(lines) THEN [val |-> [k |-> "array", v |-> items], idx |-> idx, err |-> ""]
    ELSE IF lines[idx].depth < depth + 1
         THEN [val |-> [k |-> "array", v |-> items], idx |-> idx, err |-> ""]
    ELSE IF lines[idx].depth > depth + 1 THEN Fail(idx, "unexpected indentation in list")
    ELSE IF ~HasPrefix(lines[idx].text, <<"-">>)
         THEN [val |-> [k |-> "array", v |-> items], idx |-> idx, err |-> ""]
    ELSE parseItem(lines, idx, depth, items, TrimSpace(TrimPrefix(lines[idx].text, <<"-">>)))

\* the values of an inline array
InlineValues(values) ==
    [k |-> "array", v |-> [i \in 1..Len(values) |-> parsePrimitiveToken(values[i])]]

\* parseHeader on the header h of line idx: an inline array, a tabular block
\* or a list block.  make([]T, 0, length) panics on a negative length.
parseHeaderWith(lines, idx, depth, h) ==
    IF h.bracketStart = 0 THEN Fail(idx + 1, "invalid header")
    ELSE IF ~AtoiOk(h.lengthText) THEN Fail(idx + 1, "invalid length")
    ELSE IF h.inline # << >>
         THEN [val |-> InlineValues(splitDelimited(h.inline, h.delimiter)),
               idx |-> idx + 1, err |-> ""]
    ELSE IF AtoiValue(h.lengthText) < 0 THEN Fail(idx + 1, "panic: makeslice: cap out of range")
    ELSE IF h.brace # << >>
         THEN parseRows(lines, idx + 1, depth, splitDelimited(Trim(h.brace, {"{", "}"}), h.delimiter),
                        h.delimiter, AtoiValue(h.lengthText), << >>)
    ELSE parseItems(lines, idx + 1, depth, << >>)

\* parseHeader at line idx
parseHeader(lines, idx, depth) == parseHeaderWith(lines, idx, depth, HeaderParts(lines[idx].text))

\* toonParser.parse
parse(lines) ==
    IF Len(lines) = 0 THEN [val |-> EmptyMap, idx |-> 1, err |-> ""]
    ELSE IF HasPrefix(lines[1].text, <<"[">>) THEN parseHeader(lines, 1, 0)
    ELSE IF ~ContainsRune(lines[1].text, ":") /\ Len(lines) = 1
         THEN [val |-> parsePrimitiveToken(lines[1].text), idx |-> 1, err |-> ""]
    ELSE parseObject(lines, 1, 0)

\* TOONToJSON, up to json.MarshalIndent: the decoded value, or the error with
\* the empty text
Decoded(r) == IF r.err # "" THEN [val |-> None, err |-> r.err] ELSE [val |-> r.val, err |-> ""]

TOONToJSON(input) == Decoded(parse(newToonParser(input)))

-----------------------------------------------------------------------------
(* The scalar specification: needsQuote alone, and formatPrimitive followed *)
(* by parsePrimitiveToken, on every scalar built from at most MaxParts      *)
(* pieces.                                                                  *)

MaxParts == 2

Pieces ==
    { <<"a">>, <<"1">>, <<"0">>, <<"-">>, <<"+">>, <<".">>, <<"e">>, <<"E">>,
      <<":">>, <<"\"">>, <<"\\">>, <<"[">>, <<"]">>, <<"{">>, <<"}">>,
      <<"\n">>, <<"\r">>, <<"\t">>, <<" ">>, <<",">>, <<"|">>, <<"n">>,
      <<"t", "r", "u", "e">>, <<"f", "a", "l", "s", "e">>, <<"n", "u", "l", "l">>,
      <<"h", "e", "l", "l", "o">>, <<"1", "2", "3">>, <<"1", ".", "5">>,
      <<"1", "e", "2">>, <<"-", "1">>, <<".", "5">>, <<"e", "+", "1">>,
      Int64Max, Int64MinAbs }

RECURSIVE TextsOfParts(_)
TextsOfParts(n) ==
    IF n = 0 THEN { << >> }
    ELSE TextsOfParts(n - 1) \cup { t \o p : t \in TextsOfParts(n - 1), p \in Pieces }

Texts == TextsOfParts(MaxParts)

\* the JSON number grammar, by its three parts: integer, fraction, exponent
IsIntPart(s) == s # << >> /\ AllDigits(s) /\ (Len(s) = 1 \/ s[1] # "0")
IsFracPart(s) == s = << >> \/ (Len(s) >= 2 /\ s[1] = "." /\ AllDigits(Tail(s)))
IsExpPart(s) ==
    \/ s = << >>
    \/ /\ Len(s) >= 2 /\ s[1] \in {"e", "E"}
       /\ LET d == IF s[2] \in {"+", "-"} THEN SubSeq(s, 3, Len(s)) ELSE Tail(s)
          IN  d # << >> /\ AllDigits(d)

IsNumericLiteral(s) ==
    LET t == IF s # << >> /\ s[1] = "-" THEN Tail(s) ELSE s
    IN  \E i \in 1..Len(t) : \E j \in i..Len(t) :
            /\ IsIntPart(SubSeq(t, 1, i))
            /\ IsFracPart(SubSeq(t, i + 1, j))
            /\ IsExpPart(SubSeq(t, j + 1, Len(t)))

\* a number of JSON that fits its Go type: int64 for an integer literal,
\* float64 otherwise
InRange(s) ==
    IF ContainsAny(s, {".", "e", "E"}) THEN ParseFloat(s).ok /\ Decimal(s).pos >= -324
    ELSE ParseIntOk(s)

Delims == {",", "|"}

Scalars ==
    {[k |-> "string", v |-> t] : t \in Texts}
        \cup {[k |-> "number", v |-> t] : t \in {u \in Texts : IsNumericLiteral(u)}}
        \cup {[k |-> "bool", v |-> b] : b \in BOOLEAN}
        \cup {[k |-> "null", v |-> << >>]}

InitQuote ==
    /\ InitCache(TRUE)
    /\ op = "init"
    /\ arg \in {[value |-> v, delim |-> d] : v \in Scalars, d \in Delims}
    /\ mid = None
    /\ res = None

\* needsQuote(s, delim) on a string
NeedsQuoteCall ==
    /\ op = "init"
    /\ arg.value.k = "string"
    /\ op' = "needsQuote"
    /\ res' = [k |-> "bool", v |-> needsQuote(arg.value.v, arg.delim)]
    /\ UNCHANGED <<arg, mid, cacheVars>>

\* the encoder's token for a scalar
FormatPrimitiveCall ==
    /\ op = "init"
    /\ op' = "formatPrimitive"
    /\ mid' = formatPrimitive(arg.value, arg.delim)
    /\ UNCHANGED <<arg, res, cacheVars>>

\* the decoder's reading of that token
ParsePrimitiveTokenCall ==
    /\ op = "formatPrimitive"
    /\ op' = "parsePrimitiveToken"
    /\ res' = parsePrimitiveToken(mid)
    /\ UNCHANGED <<arg, mid, cacheVars>>

NextQuote == NeedsQuoteCall \/ FormatPrimitiveCall \/ ParsePrimitiveTokenCall

SpecQuote == InitQuote /\ [][NextQuote]_vars

\* C9: needsQuote(s, delim) is true exactly when s is empty, has leading or
\* trailing whitespace, is one of true/false/null, is a numeric literal,
\* contains one of : " \ [ ] { }, contains a newline, carriage return or tab,
\* contains the active delimiter, or starts with '-'.
QuoteRule(s, delim) ==
    \/ Len(s) = 0
    \/ (Len(s) > 0 /\ (IsSpace(s[1]) \/ IsSpace(s[Len(s)])))
    \/ s = <<"t", "r", "u", "e">> \/ s = <<"f", "a", "l", "s", "e">> \/ s = <<"n", "u", "l", "l">>
    \/ IsNumericLiteral(s)
    \/ \E i \in 1..Len(s) : s[i] \in {":", "\"", "\\", "[", "]", "{", "}", "\n", "\r", "\t", delim}
    \/ (Len(s) > 0 /\ s[1] = "-")

C9_NeedsQuoteRule ==
    op = "needsQuote" =>
        /\ res.v <=> QuoteRule(arg.value.v, arg.delim)
        /\ arg.value.v \in {<<"t", "r", "u", "e">>, <<"1", "2", "3">>, << >>} => res.v
        /\ arg.value.v = <<"h", "e", "l", "l", "o">> => ~res.v

\* a string quoted only because it starts with '-'
C9_Witness ==
    /\ op = "needsQuote"
    /\ arg.value.v = <<"-", "a">>
    /\ res.v

\* C10: the token written for a string reads back as that string, never as
\* a boolean, null or number; the token written for a boolean, null or
\* in-range number reads back as that value.
C10_QuotingUnambiguous ==
    op = "parsePrimitiveToken" =>
        CASE arg.value.k = "string" -> res.k = "string" /\ res.v = arg.value.v
          [] arg.value.k = "bool" -> res.k = "bool" /\ res.v = arg.value.v
          [] arg.value.k = "null" -> res.k = "null"
          [] arg.value.k = "number" ->
                InRange(arg.value.v) =>
                    /\ res.k \in {"int64", "float64"}
                    /\ NumericValue(res) = NumericValue(arg.value)

\* the string "true" came back as a string
C10_Witness ==
    /\ op = "parsePrimitiveToken"
    /\ arg.value = [k |-> "string", v |-> <<"t", "r", "u", "e">>]
    /\ mid = <<"\"", "t", "r", "u", "e", "\"">>
    /\ res = [k |-> "string", v |-> <<"t", "r", "u", "e">>]

-----------------------------------------------------------------------------
(* The TOON specification: JSONToTOON followed by TOONToJSON on decoded     *)
(* JSON values of three families (arrays of uniform flat objects, mappings  *)
(* of scalars and arrays, flat objects), and TOONToJSON alone on tabular    *)
(* documents.                                                               *)

MaxRows == 2
MaxFields == 2
MaxCells == 3

Str(t) == [k |-> "string", v |-> t]
Num(t) == [k |-> "number", v |-> t]
Null == [k |-> "null", v |-> << >>]
Arr(items) == [k |-> "array", v |-> items]
Obj(f) == [k |-> "map", v |-> f]

\* the sequences over S of length lo..hi
SeqsOf(S, lo, hi) == UNION {[1..n -> S] : n \in lo..hi}

\* the subsets of S with lo..hi elements
SubsetsOf(S, lo, hi) == {T \in SUBSET S : Cardinality(T) \in lo..hi}

\* the objects over a key set, each key with a value of Values
ObjectsOver(keys, Values) == {Obj(f) : f \in [keys -> Values]}

TabScalars ==
    { Str(<<"a">>), Str(<<"b", "\"", "c">>), Str(<<"x", "\\", "y">>), Str(<< >>),
      Num(<<"1">>), Null }

TabFields == { <<"i", "d">>, <<"n">>, <<"a", ",", "b">> }

\* arrays of 1..MaxRows objects that share one key set, every value a scalar
TabularArrays ==
    UNION { {Arr(rows) : rows \in SeqsOf(ObjectsOver(keys, TabScalars), 1, MaxRows)} :
              keys \in SubsetsOf(TabFields, 0, MaxFields) }

MapKeys == { <<"a">>, <<"k">> }

MapValues ==
    { Str(<<"x">>), Num(<<"1", ".", "5">>), [k |-> "bool", v |-> TRUE],
      Arr(<< >>), Arr(<<Num(<<"1">>)>>), Arr(<<Num(<<"1">>), Str(<<"x">>)>>),
      Arr(<<Obj(<<"n">> :> Str(<<"a">>))>>),
      Arr(<<Obj((<<"i", "d">> :> Num(<<"1">>)) @@ (<<"n">> :> Str(<<"a">>))),
            Obj((<<"i", "d">> :> Num(<<"2">>)) @@ (<<"n">> :> Str(<<"b">>)))>>) }

\* mappings whose values are scalars, flat arrays or arrays of uniform objects
Mappings == UNION { ObjectsOver(keys, MapValues) : keys \in SubsetsOf(MapKeys, 1, 2) }

FlatKeys == { <<"a", "g", "e">>, <<"n", "a", "m", "e">>, <<"a", ":", "b">>, << >>, <<"k", "[", "1", "]">> }

FlatScalars ==
    { Str(<<"A", "l", "i", "c", "e">>), Str(<<"3", "0">>), Str(<<"a", "\n", "b">>),
      Num(<<"3", "0">>), Num(<<"1", "e", "2">>), [k |-> "bool", v |-> FALSE], Null }

\* objects whose values are all scalars
FlatObjects == UNION { ObjectsOver(keys, FlatScalars) : keys \in SubsetsOf(FlatKeys, 0, MaxFields) }

Cells == { <<"1">>, <<"a">>, << >> }

\* a row of 1..MaxCells cells, the first one not empty
DocRows == { r \in SeqsOf(Cells, 1, MaxCells) : r[1] # << >> }

\* the text of a tabular document: the header [n]{f1,..,fk}: and one
\* indented line per row, its cells joined by the delimiter
TabularDoc(fields, rows) ==
    TabularHeader(Len(rows), fields)
        \o Concat([i \in 1..Len(rows) |-> <<"\n">> \o toonIndent \o Join(rows[i], <<",">>)])

DocFields == { <<<<"i", "d">>>>, <<<<"i", "d">>, <<"n">>>> }

TabularDocs ==
    { [fields |-> f, rows |-> r, text |-> TabularDoc(f, r)] :
        f \in DocFields, r \in SeqsOf(DocRows, 1, MaxRows) }

ListKeys == { <<"a">>, <<"b">> }

ListScalars == { Num(<<"1">>), Str(<<"x">>) }

\* arrays the encoder writes in the list form: heterogeneous elements,
\* objects with differing key sets, with several keys or with nested values,
\* and arrays of arrays
ListArrays ==
    { Arr(<<s, Obj(f)>>) : s \in ListScalars, f \in [{<<"a">>} -> ListScalars] }
    \cup { Arr(<<Obj(<<"a">> :> s), Obj(<<"b">> :> s)>>) : s \in ListScalars }
    \cup { Arr(<<Obj(f), s>>) : f \in [ListKeys -> ListScalars], s \in ListScalars }
    \cup { Arr(<<s, Obj(<<"a">> :> Obj(<<"b">> :> s))>>) : s \in ListScalars }
    \cup { Arr(<<Obj((<<"a">> :> s) @@ (<<"b">> :> Arr(<<s>>)))>>) : s \in ListScalars }
    \cup { Arr(<<Arr(<<s>>), Arr(<<t>>)>>) : s, t \in ListScalars }
    \cup { Arr(<<Obj(<< >>), s>>) : s \in ListScalars }

\* a list-form array at the root, and under a key of a mapping
ListValues == ListArrays \cup { Obj(<<"k">> :> a) : a \in ListArrays }

Int64(t) == [k |-> "int64", v |-> t]

\* the list items of the TOON format, one per class: the lines of the item
\* (the "- " line and the block under it) and the value the item stands for
ListItemKinds ==
    { [class |-> "empty", lines |-> <<<<" ", " ", "-">>>>, expect |-> Obj(<< >>)],
      [class |-> "field", lines |-> <<<<" ", " ", "-", " ", "a", ":", " ", "1">>>>, expect |-> Obj(<<"a">> :> Int64(<<"1">>))],
      [class |-> "field", lines |-> <<<<" ", " ", "-", " ", "a", ":", " ", "x">>>>, expect |-> Obj(<<"a">> :> Str(<<"x">>))],
      [class |-> "nested", lines |-> <<<<" ", " ", "-", " ", "a", ":">>, <<" ", " ", " ", " ", "b", ":", " ", "2">>>>,
       expect |-> Obj(<<"a">> :> Obj(<<"b">> :> Int64(<<"2">>)))],
      [class |-> "header", lines |-> <<<<" ", " ", "-", " ", "[", "2", "]", ":", " ", "1", ",", "2">>>>, expect |-> Arr(<<Int64(<<"1">>), Int64(<<"2">>)>>)],
      [class |-> "header", lines |-> <<<<" ", " ", "-", " ", "[", "1", "]", ":">>, <<" ", " ", " ", " ", "-", " ", "x">>>>, expect |-> Arr(<<Str(<<"x">>)>>)],
      [class |-> "header", lines |-> <<<<" ", " ", "-", " ", "[", "1", "]", "{", "a", "}", ":">>, <<" ", " ", " ", " ", "1">>>>,
       expect |-> Arr(<<Obj(<<"a">> :> Int64(<<"1">>))>>)],
      [class |-> "scalar", lines |-> <<<<" ", " ", "-", " ", "x">>>>, expect |-> Str(<<"x">>)],
      [class |-> "scalar", lines |-> <<<<" ", " ", "-", " ", "1">>>>, expect |-> Int64(<<"1">>)] }

\* the list document of a sequence of items
ListDoc(items) ==
    [items |-> items,
     text |-> <<"[">> \o FormatInt(Len(items)) \o <<"]", ":">>
                \o Concat([i \in 1..Len(items) |-> <<"\n">> \o Join(items[i].lines, <<"\n">>)])]

MaxItems == 2

ListDocs == { ListDoc(items) : items \in SeqsOf(ListItemKinds, 1, MaxItems) }

\* bracketed counts that are not non-negative decimal integers
BadCounts == { <<"x">>, << >>, <<"1", "x">>, <<"-", "1">> }

HeaderKeys == { << >>, <<"i", "t", "e", "m", "s">> }

\* the lines of a header block with the given key and count: the inline, the
\* tabular and the list form
HeaderBlocks(key, count) ==
    { <<key \o <<"[">> \o count \o <<"]", ":", " ", "1", ",", "2">>>>,
      <<key \o <<"[">> \o count \o <<"]", "{", "a", "}", ":">>, <<" ", " ", "1">>>>,
      <<key \o <<"[">> \o count \o <<"]", ":">>, <<" ", " ", "-", " ", "1">>>> }

\* a block at top level, or under the key o of the root object
AtTop(block) == Join(block, <<"\n">>)
UnderKey(block) == <<"o", ":">> \o Concat([i \in 1..Len(block) |-> <<"\n">> \o toonIndent \o block[i]])

BadCountDocs ==
    UNION { UNION { { [key |-> key, count |-> count, place |-> "top", text |-> AtTop(b)],
                      [key |-> key, count |-> count, place |-> "keyed", text |-> UnderKey(b)] } :
                    b \in HeaderBlocks(key, count) } :
            key \in HeaderKeys, count \in BadCounts }

MaxCount == 2

\* the m elements of a block, as text: 1, 2, ...
CountCells(m) == [i \in 1..m |-> FormatInt(i)]

\* a header declaring n elements followed by a block of m elements
CountedBlock(form, key, n, m) ==
    CASE form = "inline" ->
            key \o <<"[">> \o FormatInt(n) \o <<"]", ":", " ">> \o Join(CountCells(m), <<",">>)
      [] form = "tabular" ->
            key \o <<"[">> \o FormatInt(n) \o <<"]", "{", "a", "}", ":">>
                \o Concat([i \in 1..m |-> <<"\n">> \o toonIndent \o FormatInt(i)])
      [] form = "list" ->
            key \o <<"[">> \o FormatInt(n) \o <<"]", ":">>
                \o Concat([i \in 1..m |-> <<"\n">> \o toonIndent \o <<"-", " ">> \o FormatInt(i)])

CountedDocs ==
    { [form |-> form, key |-> key, n |-> n, m |-> m, text |-> CountedBlock(form, key, n, m)] :
        form \in {"inline", "tabular", "list"}, key \in { << >>, <<"k">> },
        n \in 0..MaxCount, m \in 0..MaxCount }

\* arrays at the border of the tabular form: flat arrays, objects with
\* differing key sets, with nested values, with no key, mixed with scalars
FormArrays ==
    { Arr(<< >>), Arr(<<Num(<<"1">>)>>), Arr(<<Num(<<"1">>), Str(<<"x">>)>>),
      Arr(<<Null, [k |-> "bool", v |-> TRUE]>>),
      Arr(<<Obj(<<"a">> :> Num(<<"1">>)), Obj((<<"a">> :> Num(<<"1">>)) @@ (<<"b">> :> Num(<<"2">>)))>>),
      Arr(<<Obj((<<"a">> :> Num(<<"1">>)) @@ (<<"b">> :> Num(<<"2">>))), Obj(<<"a">> :> Num(<<"1">>))>>),
      Arr(<<Obj((<<"b">> :> Num(<<"1">>)) @@ (<<"a">> :> Null)), Obj((<<"a">> :> Str(<<"x">>)) @@ (<<"b">> :> Num(<<"2">>)))>>),
      Arr(<<Obj(<<"a">> :> Obj(<< >>))>>),
      Arr(<<Obj(<<"a">> :> Num(<<"1">>)), Obj(<<"a">> :> Arr(<< >>))>>),
      Arr(<<Obj(<<"a">> :> Num(<<"1">>)), Num(<<"1">>)>>),
      Arr(<<Num(<<"1">>), Obj(<<"a">> :> Num(<<"1">>))>>),
      Arr(<<Obj(<< >>)>>), Arr(<<Obj(<< >>), Obj(<< >>)>>),
      Arr(<<Obj(<< >>), Obj(<<"a">> :> Num(<<"1">>))>>),
      Arr(<<Arr(<< >>)>>) }

FormValues == FormArrays \cup { Obj(<<"k">> :> a) : a \in FormArrays }

\* the families whose value is a TOON document
DocFamilies == { "doc", "item", "badcount", "count" }

InitTOON ==
    /\ InitCache(TRUE)
    /\ op = "init"
    /\ arg \in {[family |-> "tabular", value |-> v] : v \in TabularArrays}
          \cup {[family |-> "mapping", value |-> v] : v \in Mappings}
          \cup {[family |-> "flat", value |-> v] : v \in FlatObjects}
          \cup {[family |-> "doc", value |-> d] : d \in TabularDocs}
          \cup {[family |-> "list", value |-> v] : v \in ListValues}
          \cup {[family |-> "item", value |-> d] : d \in ListDocs}
          \cup {[family |-> "badcount", value |-> d] : d \in BadCountDocs}
          \cup {[family |-> "form", value |-> v] : v \in FormValues}
          \cup {[family |-> "count", value |-> d]
                  : d \in {e \in CountedDocs : e.form = "inline" => e.m > 0}}
    /\ mid = None
    /\ res = None

\* JSONToTOON on a decoded JSON value
JSONToTOONCall ==
    /\ op = "init"
    /\ arg.family \notin DocFamilies
    /\ op' = "JSONToTOON"
    /\ mid' = JSONToTOON(arg.value)
    /\ UNCHANGED <<arg, res, cacheVars>>

\* TOONToJSON on the encoder's text
TOONToJSONCall ==
    /\ op = "JSONToTOON"
    /\ op' = "TOONToJSON"
    /\ res' = TOONToJSON(mid)
    /\ UNCHANGED <<arg, mid, cacheVars>>

\* TOONToJSON on a tabular document
TOONToJSONDoc ==
    /\ op = "init"
    /\ arg.family \in DocFamilies
    /\ op' = "TOONToJSON"
    /\ mid' = arg.value.text
    /\ res' = TOONToJSON(arg.value.text)
    /\ UNCHANGED <<arg, cacheVars>>

NextTOON == JSONToTOONCall \/ TOONToJSONCall \/ TOONToJSONDoc

SpecTOON == InitTOON /\ [][NextTOON]_vars

\* equality of a JSON value before encoding (numbers as literals) and a
\* decoded value (numbers as int64 or float64)
RECURSIVE ValueEq(_, _)
ValueEq(a, b) ==
    CASE a.k = "number" -> b.k \in {"int64", "float64"} /\ NumericValue(a) = NumericValue(b)
      [] a.k = "array" ->
            /\ b.k = "array" /\ Len(b.v) = Len(a.v)
            /\ \A i \in 1..Len(a.v) : ValueEq(a.v[i], b.v[i])
      [] a.k = "map" ->
            /\ b.k = "map" /\ DOMAIN b.v = DOMAIN a.v
            /\ \A key \in DOMAIN a.v : ValueEq(a.v[key], b.v[key])
      [] OTHER -> b.k = a.k /\ b.v = a.v

\* C2: for an array v of uniform flat-field objects, TOONToJSON(JSONToTOON(v))
\* succeeds and yields a value equal to v, whatever the strings in the field
\* values and field names.
C2_TabularRoundTrip ==
    (op = "TOONToJSON" /\ arg.family = "tabular") =>
        res.err = "" /\ ValueEq(arg.value, res.val)

\* C3: a mapping of scalars, flat arrays and arrays of uniform objects decodes
\* to itself; an array written under key k is decoded under key k.
C3_MappingRoundTrip ==
    (op = "TOONToJSON" /\ arg.family = "mapping") =>
        /\ res.err = ""
        /\ res.val.k = "map"
        /\ \A key \in DOMAIN arg.value.v : IsArray(arg.value.v[key]) => key \in DOMAIN res.val.v
        /\ ValueEq(arg.value, res.val)

\* the TOON lines of a flat object: one key: value line per key, keys in
\* lexicographic order
FlatLinesOf(obj, keys) ==
    [i \in 1..Len(keys) |-> keys[i] \o <<":", " ">> \o formatPrimitive(obj[keys[i]], ",")]

FlatLines(obj) == FlatLinesOf(obj.v, orderedKeys(obj.v))

\* C4: a JSON object of scalars is written as one key: value line per key in
\* lexicographic key order, and the TOON text decodes to an equal object.
C4_FlatObjectScenario ==
    (op = "TOONToJSON" /\ arg.family = "flat") =>
        /\ mid = Join(FlatLines(arg.value), <<"\n">>)
        /\ res.err = ""
        /\ ValueEq(arg.value, res.val)

\* C8: a tabular document with a row whose number of cells, empty ones and a
\* trailing empty one counted, differs from the number of declared fields is
\* refused with a row-width-mismatch error.
C8_RowWidthMismatch ==
    (op = "TOONToJSON" /\ arg.family = "doc") =>
        ((\E i \in 1..Len(arg.value.rows) : Len(arg.value.rows[i]) # Len(arg.value.fields))
            => res.err = "row width mismatch")

\* C21: a value holding an array that the encoder writes in the list form
\* (one "- " item per element) decodes to an equal value:
\* TOONToJSON(JSONToTOON(v)) succeeds and yields v.
C21_ListRoundTrip ==
    (op = "TOONToJSON" /\ arg.family = "list") =>
        res.err = "" /\ ValueEq(arg.value, res.val)

\* C22: every "-" line at list depth decodes to the value of its class: empty
\* content to the empty mapping, "key: value" to a single-key mapping, "key:"
\* with a nested block to a mapping holding the nested value, a header to a
\* nested array, and a bare scalar to a scalar.
C22_ListItemClasses ==
    (op = "TOONToJSON" /\ arg.family = "item") =>
        /\ res.err = ""
        /\ res.val = Arr([i \in 1..Len(arg.value.items) |-> arg.value.items[i].expect])

\* C22 without the header class: the four other classes decode as stated
C22_NonHeaderItems ==
    (/\ op = "TOONToJSON" /\ arg.family = "item"
     /\ \A i \in 1..Len(arg.value.items) : arg.value.items[i].class # "header") =>
        /\ res.err = ""
        /\ res.val = Arr([i \in 1..Len(arg.value.items) |-> arg.value.items[i].expect])

Panicked == "panic: makeslice: cap out of range"

\* C23: a header block whose bracketed count is not a non-negative decimal
\* integer makes TOONToJSON return an error, at top level and under a key of
\* an object; the call does not succeed and does not panic.
C23_MalformedCount ==
    (op = "TOONToJSON" /\ arg.family = "badcount") =>
        res.err # "" /\ res.err # Panicked

\* C23 for a header without a key at top level whose count is not a number
C23_UnkeyedNonNumeric ==
    (/\ op = "TOONToJSON" /\ arg.family = "badcount"
     /\ arg.value.key = << >> /\ arg.value.place = "top" /\ arg.value.count # <<"-", "1">>) =>
        res.err = "invalid length"

\* the array a counted document decodes to: the root, or the only value of
\* the root mapping
DecodedArray(val) ==
    IF IsMap(val) /\ DOMAIN val.v # {} THEN val.v[CHOOSE key \in DOMAIN val.v : TRUE] ELSE val

\* C24: when TOONToJSON succeeds on a header declaring N elements, the decoded
\* array has exactly N elements, and a block with fewer or more elements than
\* N is rejected.
C24_CountHonoured ==
    (op = "TOONToJSON" /\ arg.family = "count") =>
        /\ res.err = "" =>
              IsArray(DecodedArray(res.val)) /\ Len(DecodedArray(res.val).v) = arg.value.n
        /\ arg.value.m # arg.value.n => res.err # ""

\* C24 for blocks that hold as many elements as the header declares
C24_ExactCount ==
    (op = "TOONToJSON" /\ arg.family = "count" /\ arg.value.m = arg.value.n) =>
        /\ res.err = ""
        /\ IsArray(DecodedArray(res.val)) /\ Len(DecodedArray(res.val).v) = arg.value.n

\* the array whose form is under test, and the key it is written under: the
\* root array, or the value of the only key of the root mapping
FormKey(value) == IF IsArray(value) THEN << >> ELSE CHOOSE key \in DOMAIN value.v : TRUE
FormArray(value) == IF IsArray(value) THEN value.v ELSE value.v[FormKey(value)].v

\* the array is not empty, every element is a mapping, all mappings have the
\* key set of the first, and no field value is a mapping or an array
IsTabularArray(arr) ==
    /\ Len(arr) > 0
    /\ \A i \in 1..Len(arr) : IsMap(arr[i])
    /\ \A i \in 1..Len(arr) : DOMAIN arr[i].v = DOMAIN arr[1].v
    /\ \A i \in 1..Len(arr) : \A f \in DOMAIN arr[i].v : ~IsMap(arr[i].v[f]) /\ ~IsArray(arr[i].v[f])

\* fs lists the set keys in strictly increasing order
IsLexicographic(fs, keys) ==
    /\ {fs[i] : i \in 1..Len(fs)} = keys
    /\ \A i \in 1..Len(fs) - 1 : StrLess(fs[i], fs[i + 1])

\* key[N]{f1,...}: and one row per element, in the order of the array
TabularForm(key, arr, fs) ==
    key \o <<"[">> \o FormatInt(Len(arr)) \o <<"]", "{">> \o Join(fs, <<",">>) \o <<"}", ":">>
        \o Concat([i \in 1..Len(arr) |->
                     <<"\n">> \o toonIndent
                        \o Join([f \in 1..Len(fs) |-> formatPrimitive(arr[i].v[fs[f]], ",")], <<",">>)])

\* key[N]: v1,...
InlineForm(key, arr) ==
    key \o <<"[">> \o FormatInt(Len(arr)) \o <<"]", ":", " ">>
        \o Join([i \in 1..Len(arr) |-> formatPrimitive(arr[i], ",")], <<",">>)

\* key[N]: on a line of its own, then one "-" line per element at depth 1
IsListForm(key, arr, lines) ==
    /\ lines[1] = key \o <<"[">> \o FormatInt(Len(arr)) \o <<"]", ":">>
    /\ Cardinality({i \in 2..Len(lines) : HasPrefix(lines[i], toonIndent \o <<"-">>)}) = Len(arr)

\* the text is that of the form the array calls for
HasForm(key, arr, text) ==
    IF IsTabularArray(arr)
    THEN \E fs \in SeqsOf(DOMAIN arr[1].v, Cardinality(DOMAIN arr[1].v), Cardinality(DOMAIN arr[1].v)) :
            IsLexicographic(fs, DOMAIN arr[1].v) /\ text = TabularForm(key, arr, fs)
    ELSE IF \A i \in 1..Len(arr) : ~IsMap(arr[i]) /\ ~IsArray(arr[i])
         THEN text = InlineForm(key, arr)
    ELSE IsListForm(key, arr, Split(text, "\n"))

\* the text opens with a tabular header key[N]{
HasTabularHeader(key, arr, text) ==
    HasPrefix(text, key \o <<"[">> \o FormatInt(Len(arr)) \o <<"]", "{">>)

FormFamilies == { "tabular", "list", "form" }

\* C25: the encoder writes an array in the tabular form key[N]{f1,...}: (fields
\* in lexicographic order, one row per element in array order) exactly when
\* the array is not empty, every element is a mapping, all mappings have the
\* same key set and no field value is a mapping or an array; otherwise in the
\* inline form key[N]: v1,... when every element is a scalar, and in the list
\* form in all remaining cases.
C25_TabularAllOrNothing ==
    (op = "JSONToTOON" /\ arg.family \in FormFamilies) =>
        /\ HasForm(FormKey(arg.value), FormArray(arg.value), mid)
        /\ HasTabularHeader(FormKey(arg.value), FormArray(arg.value), mid)
              <=> IsTabularArray(FormArray(arg.value))

\* an array of two flat objects over the same two keys was written under a
\* key in the tabular form
C25_Witness ==
    /\ op = "JSONToTOON" /\ arg.family = "form"
    /\ FormKey(arg.value) = <<"k">>
    /\ Len(FormArray(arg.value)) = 2
    /\ IsTabularArray(FormArray(arg.value))
    /\ Cardinality(DOMAIN FormArray(arg.value)[1].v) = 2
    /\ HasTabularHeader(FormKey(arg.value), FormArray(arg.value), mid)

-----------------------------------------------------------------------------
(* formatGoSource, the formatter of struct text.  go/format.Source is the   *)
(* canonical printer of a small Go: every line is a package clause, a line  *)
(* comment or an empty struct type; a text with a package clause is a file, *)
(* a text without one is a list of declarations.                            *)

MaxGoLines == 3

\* the index of the first white-space character of s, Len(s) + 1 if none
FirstSpace(s) ==
    IF \E i \in 1..Len(s) : IsSpace(s[i])
    THEN CHOOSE i \in 1..Len(s) : IsSpace(s[i]) /\ \A j \in 1..(i - 1) : ~IsSpace(s[j])
    ELSE Len(s) + 1

\* strings.Fields: the words of s
RECURSIVE Fields(_)
RECURSIVE FieldsFrom(_, _)

\* the words of a text t that starts with a word ending before position n
FieldsFrom(t, n) == <<SubSeq(t, 1, n - 1)>> \o Fields(SubSeq(t, n, Len(t)))

Fields(s) ==
    IF TrimLeftSpace(s) = << >> THEN << >>
    ELSE FieldsFrom(TrimLeftSpace(s), FirstSpace(TrimLeftSpace(s)))

IsIdent(w) == w # << >> /\ w[1] \in Letters /\ (\A i \in 1..Len(w) : w[i] \in Letters \/ IsDigit(w[i])) /\ w \notin {<<"p", "a", "c", "k", "a", "g", "e">>, <<"t", "y", "p", "e">>, <<"s", "t", "r", "u", "c", "t">>}

IsCommentLine(l) == HasPrefix(l, <<"/", "/">>)

\* the words of a package clause: package and a name
PackageWords(w) == Len(w) = 2 /\ w[1] = <<"p", "a", "c", "k", "a", "g", "e">> /\ IsIdent(w[2])

\* the words of an empty struct type: type, a name and struct{}
TypeWords(w) ==
    /\ Len(w) >= 2 /\ w[1] = <<"t", "y", "p", "e">> /\ IsIdent(w[2])
    /\ Concat(SubSeq(w, 3, Len(w))) = <<"s", "t", "r", "u", "c", "t", "{", "}">>

IsPackageClause(l) == ~IsCommentLine(l) /\ PackageWords(Fields(l))

IsTypeDecl(l) == ~IsCommentLine(l) /\ TypeWords(Fields(l))

\* the lines of src that hold code or a comment, each trimmed
RECURSIVE CodeLines(_)
CodeLines(raw) ==
    IF raw = << >> THEN << >>
    ELSE IF TrimSpace(Head(raw)) = << >> THEN CodeLines(Tail(raw))
    ELSE <<TrimSpace(Head(raw))>> \o CodeLines(Tail(raw))

\* the printer's line for a parsed line
PrintWords(w) ==
    IF PackageWords(w) THEN <<"p", "a", "c", "k", "a", "g", "e", " ">> \o w[2]
    ELSE <<"t", "y", "p", "e", " ">> \o w[2] \o <<" ", "s", "t", "r", "u", "c", "t", "{", "}">>

PrintLine(l) == IF IsCommentLine(l) THEN l ELSE PrintWords(Fields(l))

\* the printer: a comment is followed by the next line, a package clause
\* and a declaration by an empty line; no separator after the last line
RECURSIVE PrintLines(_)
PrintLines(lines) ==
    IF lines = << >> THEN << >>
    ELSE IF Len(lines) = 1 THEN PrintLine(lines[1])
    ELSE PrintLine(lines[1]) \o (IF IsCommentLine(lines[1]) THEN <<"\n">> ELSE <<"\n", "\n">>)
            \o PrintLines(Tail(lines))

\* the index of the first line that is not a comment, 0 if every line is one
FirstCodeLine(lines) ==
    IF \A i \in 1..Len(lines) : IsCommentLine(lines[i]) THEN 0
    ELSE CHOOSE i \in 1..Len(lines) : ~IsCommentLine(lines[i]) /\ \A j \in 1..(i - 1) : IsCommentLine(lines[j])

\* every line but the first code line is a comment or a declaration
DeclsOk(lines, first) ==
    \A i \in 1..Len(lines) : i # first => IsCommentLine(lines[i]) \/ IsTypeDecl(lines[i])

\* format.Source on the code lines of src, first being the first that is no
\* comment: a file is printed with a final newline; a list of declarations
\* is printed between the white space at the two ends of src
SourceFrom(src, lines, first) ==
    IF first # 0 /\ IsPackageClause(lines[first])
    THEN IF DeclsOk(lines, first) THEN [text |-> PrintLines(lines) \o <<"\n">>, err |-> ""]
         ELSE [text |-> << >>, err |-> "expected declaration"]
    ELSE IF DeclsOk(lines, first) /\ (first = 0 \/ IsTypeDecl(lines[first]))
         THEN [text |-> SubSeq(src, 1, Len(src) - Len(TrimLeftSpace(src)))
                           \o PrintLines(lines)
                           \o SubSeq(src, Len(TrimRightSpace(src)) + 1, Len(src)),
               err |-> ""]
    ELSE [text |-> << >>, err |-> "expected 'package'"]

\* format.Source
Source(src) ==
    SourceFrom(src, CodeLines(Split(src, "\n")), FirstCodeLine(CodeLines(Split(src, "\n"))))

\* the end of formatGoSource with the package clause cut off when the input
\* has one
StripPackageInverted(hasPackage, formatted) ==
    IF formatted.err # "" THEN [text |-> << >>, err |-> formatted.err]
    ELSE IF hasPackage /\ Index(formatted.text, <<"\n", "\n">>) # 0
         THEN [text |-> TrimSpace(SubSeq(formatted.text, Index(formatted.text, <<"\n", "\n">>) + 2,
                                         Len(formatted.text))),
               err |-> ""]
    ELSE [text |-> formatted.text, err |-> ""]

\* the end of formatGoSource: format.Source's error, or its text, cut after
\* the first empty line when the package clause was added
StripPackage(hasPackage, formatted) ==
    IF formatted.err # "" THEN [text |-> << >>, err |-> formatted.err]
    ELSE IF ~hasPackage /\ Index(formatted.text, <<"\n", "\n">>) # 0
         THEN [text |-> TrimSpace(SubSeq(formatted.text, Index(formatted.text, <<"\n", "\n">>) + 2,
                                         Len(formatted.text))),
               err |-> ""]
    ELSE [text |-> formatted.text, err |-> ""]

\* formatGoSource on the trimmed text, not empty
FormatTrimmed(trimmed, hasPackage) ==
    StripPackage(hasPackage,
                 Source(IF ~hasPackage
                        THEN <<"p", "a", "c", "k", "a", "g", "e", " ", "m", "a", "i", "n", "\n", "\n">> \o trimmed
                        ELSE trimmed))

\* formatGoSource
formatGoSource(src) ==
    IF TrimSpace(src) = << >> THEN [text |-> << >>, err |-> ""]
    ELSE FormatTrimmed(TrimSpace(src),
                       Contains(TrimSpace(src), <<"p", "a", "c", "k", "a", "g", "e", " ">>))

GoPieces ==
    { <<"p", "a", "c", "k", "a", "g", "e", " ", "m", "a", "i", "n", "\n">>, <<"p", "a", "c", "k", "a", "g", "e", " ", " ", "p", "\n">>, <<"t", "y", "p", "e", " ", "T", " ", "s", "t", "r", "u", "c", "t", "{", "}", "\n">>, <<" ", " ", "t", "y", "p", "e", " ", " ", "U", " ", "s", "t", "r", "u", "c", "t", " ", "{", "}", "\n">>,
      <<"/", "/", " ", "p", "a", "c", "k", "a", "g", "e", " ", "d", "o", "c", "\n">>, <<"\n">>, <<"x", "\n">> }

RECURSIVE GoTextsOf(_)
GoTextsOf(n) ==
    IF n = 0 THEN { << >> }
    ELSE GoTextsOf(n - 1) \cup { t \o p : t \in GoTextsOf(n - 1), p \in GoPieces }

GoTexts == GoTextsOf(MaxGoLines)

InitGoFmt ==
    /\ InitCache(TRUE)
    /\ op = "init"
    /\ arg \in GoTexts
    /\ mid = None
    /\ res = None

\* FormatContent("Go Struct", s, false)
FormatGoStruct ==
    /\ op = "init"
    /\ op' = "formatted"
    /\ mid' = formatGoSource(arg)
    /\ UNCHANGED <<arg, res, cacheVars>>

\* FormatContent("Go Struct", t, false) on the text t of the first call
FormatGoStructAgain ==
    /\ op = "formatted"
    /\ mid.err = ""
    /\ op' = "formatted again"
    /\ res' = formatGoSource(mid.text)
    /\ UNCHANGED <<arg, mid, cacheVars>>

NextGoFmt == FormatGoStruct \/ FormatGoStructAgain

SpecGoFmt == InitGoFmt /\ [][NextGoFmt]_vars

-----------------------------------------------------------------------------
(* JSON Schema inference and sampling (formats.go): buildSchema and         *)
(* sampleFromSchema over decoded JSON values.  A []string (the required     *)
(* list) is [k |-> "strings", v |-> the keys].                              *)

\* the string literals of buildSchema and sampleFromSchema
Word ==
    [type |-> <<"t", "y", "p", "e">>,
     properties |-> <<"p", "r", "o", "p", "e", "r", "t", "i", "e", "s">>,
     required |-> <<"r", "e", "q", "u", "i", "r", "e", "d">>,
     items |-> <<"i", "t", "e", "m", "s">>,
     default |-> <<"d", "e", "f", "a", "u", "l", "t">>,
     enum |-> <<"e", "n", "u", "m">>,
     object |-> <<"o", "b", "j", "e", "c", "t">>,
     array |-> <<"a", "r", "r", "a", "y">>,
     string |-> <<"s", "t", "r", "i", "n", "g">>,
     number |-> <<"n", "u", "m", "b", "e", "r">>,
     integer |-> <<"i", "n", "t", "e", "g", "e", "r">>,
     boolean |-> <<"b", "o", "o", "l", "e", "a", "n">>,
     null |-> <<"n", "u", "l", "l">>]

\* map[string]any{"type": t}
TypeOnly(t) == Obj(Word.type :> Str(t))

\* the schema of an object without its required list
ObjectSchemaNoRequired(props, keys) ==
    Obj((Word.type :> Str(Word.object)) @@ (Word.properties :> Obj(props)))

\* the schema of an object whose properties are props and whose sorted keys
\* are keys: required is set when there is a key
ObjectSchema(props, keys) ==
    Obj((Word.type :> Str(Word.object)) @@ (Word.properties :> Obj(props))
        @@ (IF Len(keys) > 0 THEN Word.required :> [k |-> "strings", v |-> keys] ELSE << >>))

\* the index of the first item of val that is not nil, 0 when there is none
\* (the sample of buildSchema is then nil, val[0] being nil too)
FirstNonNil(val) == FirstOf({i \in 1..Len(val) : val[i].k # "null"} \cup {Len(val) + 1}) % (Len(val) + 1)

\* buildSchema
RECURSIVE buildSchema(_)
buildSchema(v) ==
    CASE v.k = "map" ->
            ObjectSchema([key \in DOMAIN v.v |-> buildSchema(v.v[key])], SortStrings(DOMAIN v.v))
      [] v.k = "array" ->
            Obj((Word.type :> Str(Word.array))
                @@ (Word.items :> IF FirstNonNil(v.v) = 0 THEN TypeOnly(Word.string)
                                  ELSE buildSchema(v.v[FirstNonNil(v.v)])))
      [] v.k = "number" -> TypeOnly(Word.number)
      [] v.k = "string" -> TypeOnly(Word.string)
      [] v.k = "bool" -> TypeOnly(Word.boolean)
      [] v.k = "null" -> TypeOnly(Word.null)
      [] OTHER -> TypeOnly(Word.string)

\* the first string of t that is not "null", as a one-element set
FirstTypeName(t) ==
    {t[i].v : i \in {FirstOf({j \in 1..Len(t) : t[j].k = "string" /\ t[j].v # Word.null} \cup {Len(t) + 1})}
                  \cap (1..Len(t))}

\* schemaType that takes the first entry of a type list, "null" or not
schemaTypeOfFirst(t) ==
    IF t.k = "string" THEN t.v
    ELSE IF t.k = "array" /\ Len(t.v) > 0 /\ t.v[1].k = "string" THEN t.v[1].v
    ELSE Word.object

\* schemaType on the value t of m["type"] (nil when m has no type)
schemaTypeOf(t) ==
    IF t.k = "string" THEN t.v
    ELSE IF t.k = "array" /\ FirstTypeName(t.v) # {} THEN CHOOSE s \in FirstTypeName(t.v) : TRUE
    ELSE IF t.k = "array" /\ Len(t.v) > 0 /\ t.v[1].k = "string" THEN t.v[1].v
    ELSE Word.object

\* schemaType
schemaType(m) == schemaTypeOf(IF Word.type \in DOMAIN m THEN m[Word.type] ELSE Null)

\* s["properties"].(map[string]any) read as an empty map
PropertiesOfNone(s) == << >>

\* s["properties"].(map[string]any): the map, or no key when the assertion
\* fails
PropertiesOf(s) ==
    IF Word.properties \in DOMAIN s /\ s[Word.properties].k = "map" THEN s[Word.properties].v
    ELSE << >>

\* s["default"], or the value a schema of type t has without one
DefaultOr(s, other) == IF Word.default \in DOMAIN s THEN s[Word.default] ELSE other

\* the sample of a string schema without a default: enums[0], or ""
EnumOr(s) ==
    IF Word.enum \in DOMAIN s /\ s[Word.enum].k = "array" /\ Len(s[Word.enum].v) > 0
    THEN s[Word.enum].v[1]
    ELSE Str(<< >>)

RECURSIVE sampleFromSchema(_)

\* the object case of sampleFromSchema, m being the properties
SampleProperties(m) == Obj([key \in DOMAIN m |-> sampleFromSchema(m[key])])

\* sampleFromSchema on a map s whose schemaType is t
SampleOfType(s, t) ==
    IF t = Word.array
    THEN IF Word.items \in DOMAIN s THEN Arr(<<sampleFromSchema(s[Word.items])>>) ELSE Arr(<< >>)
    ELSE IF t = Word.string THEN DefaultOr(s, EnumOr(s))
    ELSE IF t \in {Word.number, Word.integer} THEN DefaultOr(s, [k |-> "float64", v |-> Zero])
    ELSE IF t = Word.boolean THEN DefaultOr(s, [k |-> "bool", v |-> FALSE])
    ELSE IF t = Word.null THEN Null
    ELSE IF t = Word.object THEN SampleProperties(PropertiesOf(s))
    ELSE EmptyMap

\* sampleFromSchema
sampleFromSchema(schema) ==
    IF schema.k = "map" THEN SampleOfType(schema.v, schemaType(schema.v))
    ELSE IF schema.k = "array"
         THEN IF Len(schema.v) = 0 THEN Null ELSE sampleFromSchema(schema.v[1])
    ELSE Null

\* The schema specification: buildSchema on decoded JSON objects followed by
\* sampleFromSchema on the schema, and sampleFromSchema alone on schemas
\* written by hand.

MaxSchemaKeys == 2

SchemaKeys == { <<"i", "d">>, <<"a", "c", "t", "i", "v", "e">>, <<"n", "a", "m", "e">>, Word.type, <<"Z">> }

SchemaLeaves ==
    { Num(<<"1">>), Str(<<"T", "e", "s", "t">>), [k |-> "bool", v |-> TRUE], Null,
      Arr(<< >>), Arr(<<Null, Num(<<"2">>)>>), Arr(<<Null>>),
      Arr(<<Obj(<<"x">> :> Num(<<"1">>)), Obj(<<"y">> :> Null)>>) }

\* objects nested in a property
SchemaInner ==
    { EmptyMap, Obj(<<"x">> :> Str(<<"a">>)), Obj(Word.type :> Str(Word.string)),
      Obj((<<"b">> :> Obj(<<"c">> :> Null)) @@ (<<"a">> :> Num(<<"0">>))) }

\* the object of the end-to-end scenario
ScenarioObject ==
    Obj((<<"i", "d">> :> Num(<<"1">>)) @@ (<<"a", "c", "t", "i", "v", "e">> :> [k |-> "bool", v |-> TRUE])
        @@ (<<"n", "a", "m", "e">> :> Str(<<"T", "e", "s", "t">>)))

SchemaObjects ==
    {ScenarioObject}
        \cup UNION { ObjectsOver(keys, SchemaLeaves \cup SchemaInner) :
                       keys \in SubsetsOf(SchemaKeys, 0, MaxSchemaKeys) }

\* schemas as a user writes them: type lists, defaults, enums, no type
HandSchemas ==
    { Obj((Word.type :> Arr(<<Str(Word.null), Str(Word.string)>>)) @@ (Word.default :> Str(<<"d">>))),
      Obj((Word.type :> Arr(<<Str(Word.null)>>))),
      Obj((Word.type :> Str(Word.string)) @@ (Word.enum :> Arr(<<Str(<<"e">>), Str(<<"f">>)>>))),
      Obj((Word.type :> Str(Word.integer))),
      Obj((Word.type :> Str(Word.boolean)) @@ (Word.default :> [k |-> "bool", v |-> TRUE])),
      Obj((Word.type :> Str(Word.array))),
      Obj((Word.type :> Str(<<"a", "n", "y">>))),
      Obj((Word.properties :> Obj(<<"p">> :> TypeOnly(Word.number)))),
      Arr(<<TypeOnly(Word.string)>>), Arr(<< >>), Str(Word.string) }

\* the values of "type" in a schema: one name, a list of names, an unknown
\* name, and values that are neither
TypeValues ==
    { Str(Word.object), Str(Word.string), Str(Word.number), Str(Word.null), Str(<<"f", "o", "o">>),
      Arr(<<Str(Word.null), Str(Word.string)>>), Arr(<<Str(Word.string), Str(Word.number)>>),
      Arr(<<Str(Word.null), Str(Word.object)>>), Arr(<<Str(Word.null)>>),
      Arr(<<Str(Word.null), Str(Word.null)>>), Arr(<<Str(Word.null), Str(<<"f", "o", "o">>)>>),
      Arr(<<Str(<<"f", "o", "o">>), Str(Word.string)>>), Arr(<< >>),
      Arr(<<Num(<<"5">>), Str(Word.string)>>), Arr(<<Num(<<"5">>)>>), Num(<<"5">>), Null }

\* the rest of the schema: declared properties, a default, both or neither
TypedBodies ==
    { << >>,
      Word.properties :> Obj((<<"b">> :> TypeOnly(Word.string)) @@ (<<"a">> :> TypeOnly(Word.number))),
      Word.default :> Str(<<"d">>),
      (Word.properties :> Obj(<<"p">> :> Obj(Word.default :> Str(<<"d">>)))) @@ (Word.default :> Num(<<"7">>)) }

TypedSchemas ==
    { Obj(body) : body \in TypedBodies }
        \cup { Obj((Word.type :> t) @@ body) : t \in TypeValues, body \in TypedBodies }

InitSchema ==
    /\ InitCache(TRUE)
    /\ op = "init"
    /\ arg \in {[family |-> "object", value |-> v] : v \in SchemaObjects}
          \cup {[family |-> "schema", value |-> s] : s \in HandSchemas}
          \cup {[family |-> "typed", value |-> s] : s \in TypedSchemas}
    /\ mid = None
    /\ res = None

\* buildSchema on a decoded JSON object
BuildSchemaCall ==
    /\ op = "init"
    /\ arg.family = "object"
    /\ op' = "buildSchema"
    /\ mid' = buildSchema(arg.value)
    /\ UNCHANGED <<arg, res, cacheVars>>

\* sampleFromSchema on the schema buildSchema returned
SampleFromSchemaCall ==
    /\ op = "buildSchema"
    /\ op' = "sampleFromSchema"
    /\ res' = sampleFromSchema(mid)
    /\ UNCHANGED <<arg, mid, cacheVars>>

\* sampleFromSchema on a schema written by hand
SampleHandSchema ==
    /\ op = "init"
    /\ arg.family \in {"schema", "typed"}
    /\ op' = "sampleFromSchema"
    /\ mid' = arg.value
    /\ res' = sampleFromSchema(arg.value)
    /\ UNCHANGED <<arg, cacheVars>>

NextSchema == BuildSchemaCall \/ SampleFromSchemaCall \/ SampleHandSchema

SpecSchema == InitSchema /\ [][NextSchema]_vars

\* the JSON Schema type name of a decoded JSON value
TypeNameOf(v) ==
    CASE v.k = "map" -> Word.object [] v.k = "array" -> Word.array
      [] v.k = "string" -> Word.string [] v.k = "number" -> Word.number
      [] v.k = "bool" -> Word.boolean [] v.k = "null" -> Word.null

\* keys is the set S listed once each in ascending byte order
IsSortedListOf(keys, S) ==
    /\ Len(keys) = Cardinality(S)
    /\ {keys[i] : i \in 1..Len(keys)} = S
    /\ \A i \in 1..(Len(keys) - 1) : StrLess(keys[i], keys[i + 1])

\* s is the object schema the claim describes for the object v
RECURSIVE DescribesObject(_, _)
DescribesObject(s, v) ==
    /\ s.k = "map"
    /\ {Word.type, Word.properties} \subseteq DOMAIN s.v
    /\ DOMAIN s.v \subseteq {Word.type, Word.properties, Word.required}
    /\ s.v[Word.type] = Str(Word.object)
    /\ s.v[Word.properties].k = "map"
    /\ DOMAIN s.v[Word.properties].v = DOMAIN v.v
    /\ \A key \in DOMAIN v.v :
          /\ s.v[Word.properties].v[key].k = "map"
          /\ Word.type \in DOMAIN s.v[Word.properties].v[key].v
          /\ s.v[Word.properties].v[key].v[Word.type] = Str(TypeNameOf(v.v[key]))
          /\ v.v[key].k = "map" => DescribesObject(s.v[Word.properties].v[key], v.v[key])
    /\ (Word.required \in DOMAIN s.v) <=> (DOMAIN v.v # {})
    /\ Word.required \in DOMAIN s.v => IsSortedListOf(s.v[Word.required].v, DOMAIN v.v)

\* C11: the schema buildSchema infers for an object has type "object", a
\* property for exactly every key of the object, each with the type of the
\* key's value, and a required list that is the keys in lexicographic order,
\* present if and only if the object has a key; so has the schema of every
\* nested object.
C11_ObjectSchema ==
    (op \in {"buildSchema", "sampleFromSchema"} /\ arg.family = "object") =>
        DescribesObject(mid, arg.value)

\* the scenario object: required is active, id, name and active is a boolean
C11_Witness ==
    /\ op = "buildSchema"
    /\ arg.value = ScenarioObject
    /\ mid.v[Word.required].v = <<<<"a", "c", "t", "i", "v", "e">>, <<"i", "d">>, <<"n", "a", "m", "e">>>>
    /\ mid.v[Word.properties].v[<<"a", "c", "t", "i", "v", "e">>] = TypeOnly(Word.boolean)

\* s is an object with the keys of the object v, and so at every object
\* nested in an object of v
RECURSIVE SameKeySets(_, _)
SameKeySets(s, v) ==
    /\ s.k = "map"
    /\ DOMAIN s.v = DOMAIN v.v
    /\ \A key \in DOMAIN v.v : v.v[key].k = "map" => SameKeySets(s.v[key], v.v[key])

\* C12: for an object v, sampleFromSchema(buildSchema(v)) is an object with
\* the key set of v at every nesting level of objects within objects; the
\* leaf values may differ.
C12_SampleKeepsKeys ==
    (op = "sampleFromSchema" /\ arg.family = "object") => SameKeySets(res, arg.value)

\* an object with an object two levels down was sampled with other leaves
C12_Witness ==
    /\ op = "sampleFromSchema"
    /\ arg.family = "object"
    /\ \E key \in DOMAIN arg.value.v :
          /\ arg.value.v[key] = Obj((<<"b">> :> Obj(<<"c">> :> Null)) @@ (<<"a">> :> Num(<<"0">>)))
          /\ res.v[key] = Obj((<<"b">> :> Obj(<<"c">> :> Null)) @@ (<<"a">> :> [k |-> "float64", v |-> Zero]))

\* the type names sampleFromSchema has a case for
KnownTypes ==
    { Word.array, Word.string, Word.number, Word.integer, Word.boolean, Word.null, Word.object }

\* the strings of a type list, in order
TypeNames(t) == [i \in 1..Len(SelectSeq(t, LAMBDA e : e.k = "string")) |->
                    SelectSeq(t, LAMBDA e : e.k = "string")[i].v]

\* the first name that is not "null", else the first name
RECURSIVE FirstNonNull(_, _)
FirstNonNull(names, first) ==
    IF names = << >> THEN first
    ELSE IF Head(names) # Word.null THEN Head(names)
    ELSE FirstNonNull(Tail(names), first)

\* the type of a schema as the claim resolves it: a name it knows, the first
\* name of a list that is not "null" (else its first name), and "object" when
\* the type is absent or not recognized
ClaimedType(s) ==
    LET named == IF Word.type \notin DOMAIN s THEN Word.object
                 ELSE IF s[Word.type].k = "string" THEN s[Word.type].v
                 ELSE IF s[Word.type].k = "array" /\ TypeNames(s[Word.type].v) # << >>
                      THEN FirstNonNull(TypeNames(s[Word.type].v), TypeNames(s[Word.type].v)[1])
                 ELSE Word.object
    IN  IF named \in KnownTypes THEN named ELSE Word.object

\* the type of a schema as resolved: as above, but a name is kept whether or
\* not it is known; "object" only when there is no name
ResolvedType(s) ==
    IF Word.type \notin DOMAIN s THEN Word.object
    ELSE IF s[Word.type].k = "string" THEN s[Word.type].v
    ELSE IF s[Word.type].k = "array" /\ TypeNames(s[Word.type].v) # << >>
         THEN IF FirstNonNull(TypeNames(s[Word.type].v), << >>) # << >>
              THEN FirstNonNull(TypeNames(s[Word.type].v), << >>)
              ELSE IF s[Word.type].v[1].k = "string" THEN s[Word.type].v[1].v ELSE Word.object
    ELSE Word.object

\* the schema with the one type name t
WithType(s, t) == Obj((Word.type :> Str(t)) @@ s)

\* C26 as stated: the sample of a schema is the sample of the same schema with
\* its resolved type written as one name, where an absent or unrecognized
\* type resolves to "object" (so that the declared properties are sampled).
C26_TypeResolution ==
    (op = "sampleFromSchema" /\ arg.family = "typed") =>
        res = sampleFromSchema(WithType(arg.value.v, ClaimedType(arg.value.v)))

\* C26 amended: the type resolves to the single name, to the first name of a
\* list that is not "null" (else the first entry when it is a name), and to
\* "object" when there is no name; a schema whose resolved name is known is
\* sampled as the same schema with that one name (for "object", its declared
\* properties), and a schema whose resolved name is unknown gives the empty
\* mapping, its properties not sampled.
C26_TypeResolutionAmended ==
    (op = "sampleFromSchema" /\ arg.family = "typed") =>
        IF ResolvedType(arg.value.v) \in KnownTypes
        THEN res = sampleFromSchema(WithType(arg.value.v, ResolvedType(arg.value.v)))
        ELSE res = EmptyMap

\* a schema without a type and with two declared properties was sampled to an
\* object of those properties
C26_Witness ==
    /\ op = "sampleFromSchema" /\ arg.family = "typed"
    /\ Word.type \notin DOMAIN arg.value.v
    /\ res = Obj((<<"b">> :> Str(<< >>)) @@ (<<"a">> :> [k |-> "float64", v |-> Zero]))

-----------------------------------------------------------------------------
(* parseGoStructDefinitions: struct text to StructDefinitions.              *)
(* go/parser.ParseFile is the parser of a small Go, one declaration or one  *)
(* field per line: a package clause, then type declarations                 *)
(*     type N struct {        type N struct{}        type N T               *)
(*         A, B T `tag`                                                     *)
(*         T                                                                *)
(*     }                                                                    *)
(* and line comments.  A field is [Names, Type, Tag], Tag being the literal *)
(* with its back quotes and << >> for no tag; Names is << >> for an         *)
(* embedded field.  The back quote is the character "<U+0060>".             *)

Backquote == "<U+0060>"

\* unicode.IsUpper, unicode.IsLower, unicode.ToLower, unicode.ToUpper
IsUpper(c) == CharCode(c) \in 65..90
IsLower(c) == CharCode(c) \in 97..122
ToLowerRune(c) == IF IsUpper(c) THEN Bytes[CharCode(c) + 32] ELSE c
ToUpperRune(c) == IF IsLower(c) THEN Bytes[CharCode(c) - 32] ELSE c

\* strings.ToLower
ToLower(s) == [i \in 1..Len(s) |-> ToLowerRune(s[i])]

\* splitWords: whether rune i of runes starts a new part
StartsPart(runes, i) ==
    IF IsUpper(runes[i])
    THEN \/ IsLower(runes[i - 1])
         \/ IsDigit(runes[i - 1])
         \/ (IsUpper(runes[i - 1]) /\ i + 1 <= Len(runes) /\ IsLower(runes[i + 1]))
    ELSE IF IsDigit(runes[i]) THEN ~IsDigit(runes[i - 1])
    ELSE IsDigit(runes[i - 1])

\* the loop of splitWords from rune i, current being the part under way
RECURSIVE splitWordsFrom(_, _, _)
splitWordsFrom(runes, i, current) ==
    IF i > Len(runes) THEN <<current>>
    ELSE IF StartsPart(runes, i) THEN <<current>> \o splitWordsFrom(runes, i + 1, <<runes[i]>>)
    ELSE splitWordsFrom(runes, i + 1, Append(current, runes[i]))

\* splitWords
splitWords(s) == IF s = << >> THEN << >> ELSE splitWordsFrom(s, 2, <<s[1]>>)

\* isAllUpper
isAllUpper(s) == s # << >> /\ \A i \in 1..Len(s) : s[i] \in Letters => IsUpper(s[i])

\* what lowerFirst writes for a word after the first
LaterWord(word) ==
    IF word = << >> THEN << >>
    ELSE IF isAllUpper(word) THEN word
    ELSE <<ToUpperRune(ToLowerRune(word[1]))>> \o ToLower(Tail(word))

\* lowerFirst of a text that is not empty, words being its splitWords
lowerFirstOf(s, words) ==
    IF Len(words) = 0 THEN ToLower(s)
    ELSE ToLower(words[1]) \o Concat([i \in 1..(Len(words) - 1) |-> LaterWord(words[i + 1])])

\* lowerFirst
lowerFirst(s) == IF s = << >> THEN s ELSE lowerFirstOf(s, splitWords(s))

\* strings.TrimSuffix
TrimSuffix(s, p) == IF HasSuffix(s, p) THEN SubSeq(s, 1, Len(s) - Len(p)) ELSE s

\* parseJSONTag on the text p between json:" and the closing quote
JSONTagName(p) ==
    IF p = <<"-">> THEN << >>
    ELSE IF Index(p, <<",">>) # 0 THEN SubSeq(p, 1, Index(p, <<",">>) - 1)
    ELSE p

\* the loop of parseJSONTag over the parts of the tag
RECURSIVE JSONTagOfParts(_)
JSONTagOfParts(parts) ==
    IF parts = << >> THEN << >>
    ELSE IF HasPrefix(Head(parts), <<"j", "s", "o", "n", ":", "\"">>)
         THEN JSONTagName(TrimSuffix(TrimPrefix(Head(parts), <<"j", "s", "o", "n", ":", "\"">>), <<"\"">>))
    ELSE JSONTagOfParts(Tail(parts))

\* parseJSONTag
parseJSONTag(tag) == IF tag = << >> THEN << >> ELSE JSONTagOfParts(Split(tag, " "))

\* the loop of buildStructDefinition over the names of a field, jsonName
\* being the variable set before the loop
RECURSIVE NamedFields(_, _, _)

\* the StructField of the first of names and those of the names after it
NamedFrom(names, jsonName, field) ==
    <<[GoName |-> Head(names), JSONName |-> jsonName, TypeString |-> field.Type, Tag |-> field.Tag]>>
        \o NamedFields(Tail(names), jsonName, field)

NamedFields(names, jsonName, field) ==
    IF names = << >> THEN << >>
    ELSE NamedFrom(names, IF jsonName = << >> THEN lowerFirst(Head(names)) ELSE jsonName, field)

\* the StructFields of one field of the struct type
FieldEntries(field) ==
    NamedFields(IF Len(field.Names) = 0 THEN <<field.Type>> ELSE field.Names,
                IF field.Tag # << >> THEN parseJSONTag(Trim(field.Tag, {Backquote})) ELSE << >>,
                field)

\* buildStructDefinition
buildStructDefinition(name, st) ==
    [Name |-> name, Fields |-> Concat([i \in 1..Len(st) |-> FieldEntries(st[i])])]

\* a type expression of the small Go: a name, a pointer to one, a slice of one
IsTypeExpr(w) ==
    \/ IsIdent(w)
    \/ Len(w) > 1 /\ w[1] = "*" /\ IsIdent(Tail(w))
    \/ Len(w) > 2 /\ w[1] = "[" /\ w[2] = "]" /\ IsIdent(SubSeq(w, 3, Len(w)))

\* the field whose words before the tag are words
FieldOfWords(words, tag) ==
    IF Len(words) = 0 THEN [ok |-> FALSE]
    ELSE IF Len(words) = 1 THEN [ok |-> IsTypeExpr(words[1]), Names |-> << >>, Type |-> words[1], Tag |-> tag]
    ELSE [ok |-> /\ IsTypeExpr(words[Len(words)])
                 /\ \A n \in {Split(Concat(SubSeq(words, 1, Len(words) - 1)), ",")[i] :
                                 i \in 1..Len(Split(Concat(SubSeq(words, 1, Len(words) - 1)), ","))} : IsIdent(n),
          Names |-> Split(Concat(SubSeq(words, 1, Len(words) - 1)), ","),
          Type |-> words[Len(words)],
          Tag |-> tag]

\* the field of a line whose first back quote is at tagAt (0 for none): a
\* raw string literal runs to the next back quote, which ends the line
FieldAt(line, tagAt) ==
    IF tagAt = 0 THEN FieldOfWords(Fields(line), << >>)
    ELSE IF Len(line) > tagAt /\ line[Len(line)] = Backquote
            /\ (\A j \in (tagAt + 1)..(Len(line) - 1) : line[j] # Backquote)
         THEN FieldOfWords(Fields(SubSeq(line, 1, tagAt - 1)), SubSeq(line, tagAt, Len(line)))
    ELSE [ok |-> FALSE]

RECURSIVE ParseDecls(_, _, _)
RECURSIVE ParseStructBody(_, _, _, _, _)

\* the fields of a struct type from line i to its closing brace, then the
\* declarations after it
ParseStructBody(lines, i, name, fields, decls) ==
    IF i > Len(lines) THEN [err |-> "expected '}', found 'EOF'", decls |-> << >>]
    ELSE IF lines[i] = <<"}">>
         THEN ParseDecls(lines, i + 1, Append(decls, [Name |-> name, struct |-> TRUE, Fields |-> fields]))
    ELSE IF IsCommentLine(lines[i]) THEN ParseStructBody(lines, i + 1, name, fields, decls)
    ELSE IF FieldAt(lines[i], Index(lines[i], <<Backquote>>)).ok
         THEN ParseStructBody(lines, i + 1, name,
                              Append(fields, FieldAt(lines[i], Index(lines[i], <<Backquote>>))), decls)
    ELSE [err |-> "expected field", decls |-> << >>]

\* the declaration whose words are w, at line i
DeclOfWords(lines, i, w, decls) ==
    IF TypeWords(w)
    THEN ParseDecls(lines, i + 1, Append(decls, [Name |-> w[2], struct |-> TRUE, Fields |-> << >>]))
    ELSE IF Len(w) = 4 /\ w[1] = <<"t", "y", "p", "e">> /\ IsIdent(w[2]) /\ w[3] = <<"s", "t", "r", "u", "c", "t">> /\ w[4] = <<"{">>
         THEN ParseStructBody(lines, i + 1, w[2], << >>, decls)
    ELSE IF Len(w) = 3 /\ w[1] = <<"t", "y", "p", "e">> /\ IsIdent(w[2]) /\ IsTypeExpr(w[3])
         THEN ParseDecls(lines, i + 1, Append(decls, [Name |-> w[2], struct |-> FALSE, Fields |-> << >>]))
    ELSE [err |-> "expected declaration", decls |-> << >>]

\* the declarations from line i on
ParseDecls(lines, i, decls) ==
    IF i > Len(lines) THEN [err |-> "", decls |-> decls]
    ELSE IF IsCommentLine(lines[i]) THEN ParseDecls(lines, i + 1, decls)
    ELSE DeclOfWords(lines, i, Fields(lines[i]), decls)

\* the file of lines whose first line that is no comment is line first
FileFrom(lines, first) ==
    IF first # 0 /\ IsPackageClause(lines[first]) THEN ParseDecls(lines, first + 1, << >>)
    ELSE [err |-> "expected 'package'", decls |-> << >>]

\* parser.ParseFile: the type declarations of the file, or a syntax error
ParseFile(source) == FileFrom(CodeLines(Split(source, "\n")), FirstCodeLine(CodeLines(Split(source, "\n"))))

\* the StructDefinitions of the struct types among decls
RECURSIVE StructDefinitions(_)
StructDefinitions(decls) ==
    IF decls = << >> THEN << >>
    ELSE (IF Head(decls).struct THEN <<buildStructDefinition(Head(decls).Name, Head(decls).Fields)>> ELSE << >>)
            \o StructDefinitions(Tail(decls))

\* parseGoStructDefinitions after the parse, defs being the definitions built
DefinitionsOf(file, defs) ==
    IF file.err # "" THEN [defs |-> << >>, err |-> file.err]
    ELSE IF Len(defs) = 0 THEN [defs |-> << >>, err |-> "no struct definition found"]
    ELSE [defs |-> defs, err |-> ""]

\* parseGoStructDefinitions on the trimmed source, file being its parse
DefinitionsOfFile(file) == DefinitionsOf(file, StructDefinitions(file.decls))

\* parseGoStructDefinitions
parseGoStructDefinitions(src) ==
    IF TrimSpace(src) = << >> THEN [defs |-> << >>, err |-> "empty input"]
    ELSE DefinitionsOfFile(ParseFile(IF ~Contains(TrimSpace(src), <<"p", "a", "c", "k", "a", "g", "e", " ">>)
                                     THEN <<"p", "a", "c", "k", "a", "g", "e", " ", "m", "a", "i", "n", "\n">> \o TrimSpace(src)
                                     ELSE TrimSpace(src)))

\* The struct specification: parseGoStructDefinitions on the text of one
\* struct type of 1..MaxStructFields field lines, with and without a package
\* clause, and on texts without a struct type.

MaxStructFields == 2

\* field lines: the names, the type, the text between the back quotes of the
\* tag (none: no tag), and what the reader of the line expects: the name the
\* tag supplies (<< >>: none), whether the tag is -, and the lower camel
\* case of each name
FieldLines ==
    { [names |-> <<<<"I", "D">>>>, type |-> <<"i", "n", "t">>, tag |-> <<"j", "s", "o", "n", ":", "\"", "i", "d", "\"">>, none |-> FALSE,
       external |-> <<"i", "d">>, dash |-> FALSE, camel |-> <<<<"i", "d">>>>],
      [names |-> <<<<"N", "a", "m", "e">>>>, type |-> <<"s", "t", "r", "i", "n", "g">>, tag |-> << >>, none |-> TRUE,
       external |-> << >>, dash |-> FALSE, camel |-> <<<<"n", "a", "m", "e">>>>],
      [names |-> <<<<"S", "e", "c", "r", "e", "t">>>>, type |-> <<"s", "t", "r", "i", "n", "g">>, tag |-> <<"j", "s", "o", "n", ":", "\"", "-", "\"">>, none |-> FALSE,
       external |-> << >>, dash |-> TRUE, camel |-> <<<<"s", "e", "c", "r", "e", "t">>>>],
      [names |-> <<<<"A">>, <<"B">>>>, type |-> <<"i", "n", "t">>, tag |-> << >>, none |-> TRUE,
       external |-> << >>, dash |-> FALSE, camel |-> <<<<"a">>, <<"b">>>>],
      [names |-> <<<<"X">>, <<"Y">>>>, type |-> <<"i", "n", "t">>, tag |-> <<"j", "s", "o", "n", ":", "\"", "x", "\"">>, none |-> FALSE,
       external |-> <<"x">>, dash |-> FALSE, camel |-> <<<<"x">>, <<"y">>>>],
      [names |-> << >>, type |-> <<"B", "a", "s", "e">>, tag |-> << >>, none |-> TRUE,
       external |-> << >>, dash |-> FALSE, camel |-> <<<<"b", "a", "s", "e">>>>],
      [names |-> <<<<"H", "T", "T", "P", "S", "e", "r", "v", "e", "r", "V", "2">>>>, type |-> <<"[", "]", "s", "t", "r", "i", "n", "g">>, tag |-> <<"j", "s", "o", "n", ":", "\"", ",", "o", "m", "i", "t", "e", "m", "p", "t", "y", "\"">>, none |-> FALSE,
       external |-> << >>, dash |-> FALSE, camel |-> <<<<"h", "t", "t", "p", "S", "e", "r", "v", "e", "r", "V", "2">>>>],
      [names |-> <<<<"U", "s", "e", "r", "N", "a", "m", "e">>>>, type |-> <<"*", "B", "a", "s", "e">>, tag |-> <<"x", "m", "l", ":", "\"", "u", "\"", " ", "j", "s", "o", "n", ":", "\"", "u", "s", "e", "r", ",", "o", "m", "i", "t", "e", "m", "p", "t", "y", "\"">>, none |-> FALSE,
       external |-> <<"u", "s", "e", "r">>, dash |-> FALSE, camel |-> <<<<"u", "s", "e", "r", "N", "a", "m", "e">>>>] }

\* the text of a field line
FieldLineText(f) ==
    <<"\t">> \o Join(f.names, <<",", " ">>) \o (IF f.names = << >> THEN << >> ELSE <<" ">>) \o f.type
        \o (IF f.none THEN << >> ELSE <<" ", Backquote>> \o f.tag \o <<Backquote>>) \o <<"\n">>

\* the text of the struct type T with the field lines fs
StructText(fs) == <<"t", "y", "p", "e", " ", "T", " ", "s", "t", "r", "u", "c", "t", " ", "{", "\n">> \o Concat([i \in 1..Len(fs) |-> FieldLineText(fs[i])]) \o <<"}">>

\* texts without a struct type to build a definition from
OtherSources ==
    { << >>, <<" ", "\n">>, <<"t", "y", "p", "e", " ", "N", " ", "i", "n", "t">>, <<"p", "a", "c", "k", "a", "g", "e", " ", "p", "\n", "t", "y", "p", "e", " ", "N", " ", "i", "n", "t", "\n">>, <<"t", "y", "p", "e", " ", "T", " ", "s", "t", "r", "u", "c", "t", "{", "}">>,
      <<"/", "/", " ", "p", "a", "c", "k", "a", "g", "e", " ", "d", "o", "c", "\n", "t", "y", "p", "e", " ", "T", " ", "s", "t", "r", "u", "c", "t", "{", "}">>, <<"t", "y", "p", "e", " ", "T", " ", "s", "t", "r", "u", "c", "t", " ", "{", "\n", "\t", "A", " ", "i", "n", "t">>, <<"x">> }

InitStruct ==
    /\ InitCache(TRUE)
    /\ op = "init"
    /\ arg \in {[family |-> "struct", fields |-> fs, text |-> pre \o StructText(fs)] :
                    fs \in SeqsOf(FieldLines, 1, MaxStructFields), pre \in {<< >>, <<"p", "a", "c", "k", "a", "g", "e", " ", "m", "o", "d", "e", "l", "\n", "\n">>}}
          \cup {[family |-> "other", fields |-> << >>, text |-> t] : t \in OtherSources}
    /\ mid = << >>
    /\ res = None

\* one call of parseGoStructDefinitions(src)
ParseGoStructDefinitionsCall ==
    /\ op = "init"
    /\ op' = "parseGoStructDefinitions"
    /\ res' = parseGoStructDefinitions(arg.text)
    /\ UNCHANGED <<arg, mid, cacheVars>>

\* a second call on the same text
ParseGoStructDefinitionsAgain ==
    /\ op = "parseGoStructDefinitions"
    /\ op' = "parseGoStructDefinitions again"
    /\ mid' = res
    /\ res' = parseGoStructDefinitions(arg.text)
    /\ UNCHANGED <<arg, cacheVars>>

NextStruct == ParseGoStructDefinitionsCall \/ ParseGoStructDefinitionsAgain

SpecStruct == InitStruct /\ [][NextStruct]_vars

\* the names the field lines fs declare, in order, each with its line; an
\* embedded field is named after its type
RECURSIVE DeclaredNames(_)
DeclaredNames(fs) ==
    IF fs = << >> THEN << >>
    ELSE [i \in 1..Len(IF Head(fs).names = << >> THEN <<Head(fs).type>> ELSE Head(fs).names) |->
            [name |-> (IF Head(fs).names = << >> THEN <<Head(fs).type>> ELSE Head(fs).names)[i],
             camel |-> Head(fs).camel[i], line |-> Head(fs)]]
         \o DeclaredNames(Tail(fs))

\* the call returned one definition whose fields are the declared names
ReturnedDeclared(r, declared) ==
    /\ r.err = ""
    /\ Len(r.defs) = 1
    /\ Len(r.defs[1].Fields) = Len(declared)
    /\ \A i \in 1..Len(declared) : r.defs[1].Fields[i].GoName = declared[i].name

\* C13: a field whose json tag is - is returned in the StructField list with
\* an empty JSONName.
C13_SuppressedField ==
    (op = "parseGoStructDefinitions" /\ arg.family = "struct") =>
        /\ ReturnedDeclared(res, DeclaredNames(arg.fields))
        /\ \A i \in 1..Len(DeclaredNames(arg.fields)) :
              DeclaredNames(arg.fields)[i].line.dash => res.defs[1].Fields[i].JSONName = << >>

\* C14: the JSONName of every returned field is the name its tag supplies,
\* and without one the lower camel case of the field's own name; so for each
\* name of a line with several names and for an embedded field.
C14_ExternalName ==
    (op = "parseGoStructDefinitions" /\ arg.family = "struct") =>
        /\ ReturnedDeclared(res, DeclaredNames(arg.fields))
        /\ \A i \in 1..Len(DeclaredNames(arg.fields)) :
              ~DeclaredNames(arg.fields)[i].line.dash =>
                  res.defs[1].Fields[i].JSONName =
                      IF DeclaredNames(arg.fields)[i].line.external # << >>
                      THEN DeclaredNames(arg.fields)[i].line.external
                      ELSE DeclaredNames(arg.fields)[i].camel

-----------------------------------------------------------------------------
(* encoding/json as the converters use it, over JSON text.  A decoded       *)
(* number is a json.Number (its literal) under UseNumber and a float64      *)
(* otherwise.  A float64 is the decimal of the numeral it was parsed from:  *)
(* exact for numerals of at most 15 significant digits, to which the texts  *)
(* of the specifications keep.                                              *)

JSONSpace == {" ", "\t", "\n", "\r"}

\* the characters below U+0020, which a JSON string holds only escaped
ControlChars == {Bytes[n] : n \in 1..31}

RECURSIVE SkipSpace(_, _)
SkipSpace(s, i) == IF i <= Len(s) /\ s[i] \in JSONSpace THEN SkipSpace(s, i + 1) ELSE i

\* the result of a scan that failed; one that succeeded is the value and the
\* index after it
JSONFail == [ok |-> FALSE, val |-> None, next |-> 0]

\* the character of a one-letter escape
JSONEscapes ==
    ("\"" :> "\"") @@ ("\\" :> "\\") @@ ("/" :> "/") @@ ("b" :> "<U+0008>") @@ ("f" :> "\f")
        @@ ("n" :> "\n") @@ ("r" :> "\r") @@ ("t" :> "\t")

\* the string literal whose characters start at i, acc being those read
RECURSIVE ScanString(_, _, _)
ScanString(s, i, acc) ==
    IF i > Len(s) THEN JSONFail
    ELSE IF s[i] = "\"" THEN [ok |-> TRUE, val |-> acc, next |-> i + 1]
    ELSE IF s[i] = "\\"
         THEN IF i + 1 <= Len(s) /\ s[i + 1] \in DOMAIN JSONEscapes
              THEN ScanString(s, i + 2, Append(acc, JSONEscapes[s[i + 1]]))
              ELSE IF i + 5 <= Len(s) /\ s[i + 1] = "u" /\ AllHex(SubSeq(s, i + 2, i + 5))
                   THEN ScanString(s, i + 6, Append(acc, "<hex>"))
              ELSE JSONFail
    ELSE IF s[i] \in ControlChars THEN JSONFail
    ELSE ScanString(s, i + 1, Append(acc, s[i]))

\* the index after the run of number characters that starts at i
RECURSIVE NumberRunEnd(_, _)
NumberRunEnd(s, i) ==
    IF i <= Len(s) /\ (IsDigit(s[i]) \/ s[i] \in {"-", "+", ".", "e", "E"}) THEN NumberRunEnd(s, i + 1) ELSE i

\* the word w stands at index i of s
StartsAt(s, i, w) == i + Len(w) - 1 <= Len(s) /\ SubSeq(s, i, i + Len(w) - 1) = w

\* the number whose literal is lit and ends before next: a json.Number, or
\* the float64 of strconv.ParseFloat (f), whose range error fails the decode
NumberOf(lit, next, useNumber, f) ==
    IF ~numberPattern(lit) THEN JSONFail
    ELSE IF useNumber THEN [ok |-> TRUE, val |-> Num(lit), next |-> next]
    ELSE IF f.ok THEN [ok |-> TRUE, val |-> [k |-> "float64", v |-> f.value], next |-> next]
    ELSE JSONFail

\* a number literal: the grammar of JSON numbers is that of numberPattern
NumberAt(s, i, next, useNumber) ==
    IF next = i THEN JSONFail
    ELSE NumberOf(SubSeq(s, i, next - 1), next, useNumber,
                  IF useNumber THEN [ok |-> TRUE, value |-> Zero] ELSE ParseFloat(SubSeq(s, i, next - 1)))

\* a string literal as a value
StringValue(r) == IF r.ok THEN [r EXCEPT !.val = Str(r.val)] ELSE JSONFail

RECURSIVE ParseValue(_, _, _)
RECURSIVE ParseElements(_, _, _, _)
RECURSIVE ParseMembers(_, _, _, _)
RECURSIVE AfterElement(_, _, _, _)
RECURSIVE ElementSep(_, _, _, _)
RECURSIVE AfterKey(_, _, _, _)
RECURSIVE KeyColon(_, _, _, _, _)
RECURSIVE AfterMember(_, _, _, _, _)
RECURSIVE MemberSep(_, _, _, _)

\* after an element of an array: a comma and the next element, or the end
ElementSep(s, k, items, useNumber) ==
    IF k > Len(s) THEN JSONFail
    ELSE IF s[k] = "," THEN ParseElements(s, SkipSpace(s, k + 1), items, useNumber)
    ELSE IF s[k] = "]" THEN [ok |-> TRUE, val |-> Arr(items), next |-> k + 1]
    ELSE JSONFail

AfterElement(s, r, items, useNumber) ==
    IF ~r.ok THEN JSONFail ELSE ElementSep(s, SkipSpace(s, r.next), Append(items, r.val), useNumber)

\* the elements of an array from index j, items being those read
ParseElements(s, j, items, useNumber) == AfterElement(s, ParseValue(s, j, useNumber), items, useNumber)

\* after a member of an object: a comma and the next member, or the end
MemberSep(s, k, m, useNumber) ==
    IF k > Len(s) THEN JSONFail
    ELSE IF s[k] = "," THEN ParseMembers(s, SkipSpace(s, k + 1), m, useNumber)
    ELSE IF s[k] = "}" THEN [ok |-> TRUE, val |-> Obj(m), next |-> k + 1]
    ELSE JSONFail

\* a key read twice keeps its last value
AfterMember(s, r, key, m, useNumber) ==
    IF ~r.ok THEN JSONFail ELSE MemberSep(s, SkipSpace(s, r.next), (key :> r.val) @@ m, useNumber)

KeyColon(s, k, key, m, useNumber) ==
    IF k <= Len(s) /\ s[k] = ":"
    THEN AfterMember(s, ParseValue(s, SkipSpace(s, k + 1), useNumber), key, m, useNumber)
    ELSE JSONFail

AfterKey(s, key, m, useNumber) ==
    IF ~key.ok THEN JSONFail ELSE KeyColon(s, SkipSpace(s, key.next), key.val, m, useNumber)

\* the members of an object from index j, m being those read
ParseMembers(s, j, m, useNumber) ==
    IF j <= Len(s) /\ s[j] = "\"" THEN AfterKey(s, ScanString(s, j + 1, << >>), m, useNumber)
    ELSE JSONFail

\* the array and the object whose first character after the bracket is at j
ArrayAt(s, j, useNumber) ==
    IF j <= Len(s) /\ s[j] = "]" THEN [ok |-> TRUE, val |-> Arr(<< >>), next |-> j + 1]
    ELSE ParseElements(s, j, << >>, useNumber)

ObjectAt(s, j, useNumber) ==
    IF j <= Len(s) /\ s[j] = "}" THEN [ok |-> TRUE, val |-> EmptyMap, next |-> j + 1]
    ELSE ParseMembers(s, j, << >>, useNumber)

\* the JSON value that starts at index i of s
ParseValue(s, i, useNumber) ==
    IF i > Len(s) THEN JSONFail
    ELSE IF s[i] = "{" THEN ObjectAt(s, SkipSpace(s, i + 1), useNumber)
    ELSE IF s[i] = "[" THEN ArrayAt(s, SkipSpace(s, i + 1), useNumber)
    ELSE IF s[i] = "\"" THEN StringValue(ScanString(s, i + 1, << >>))
    ELSE IF StartsAt(s, i, <<"t", "r", "u", "e">>) THEN [ok |-> TRUE, val |-> [k |-> "bool", v |-> TRUE], next |-> i + 4]
    ELSE IF StartsAt(s, i, <<"f", "a", "l", "s", "e">>) THEN [ok |-> TRUE, val |-> [k |-> "bool", v |-> FALSE], next |-> i + 5]
    ELSE IF StartsAt(s, i, <<"n", "u", "l", "l">>) THEN [ok |-> TRUE, val |-> Null, next |-> i + 4]
    ELSE NumberAt(s, i, NumberRunEnd(s, i), useNumber)

\* a scan of the whole text: one value and white space around it
WholeText(s, r) ==
    IF r.ok /\ SkipSpace(s, r.next) = Len(s) + 1 THEN [val |-> r.val, err |-> ""]
    ELSE [val |-> None, err |-> "invalid JSON"]

\* json.Unmarshal into an any
Unmarshal(input) == WholeText(input, ParseValue(input, SkipSpace(input, 1), FALSE))

\* Decoder.Decode: the first value of the text; the decoder stops at the end
\* of an array or object, and after a scalar at white space or the end
FirstValue(s, r) ==
    IF r.ok /\ (r.val.k \in {"array", "map"} \/ r.next > Len(s) \/ s[r.next] \in JSONSpace)
    THEN [val |-> r.val, err |-> ""]
    ELSE [val |-> None, err |-> "invalid JSON"]

\* decodeJSONValue
decodeJSONValue(input) == FirstValue(input, ParseValue(input, SkipSpace(input, 1), TRUE))

\* json.Compact of a valid text: the white space outside strings removed
RECURSIVE CompactFrom(_, _, _, _)
CompactFrom(s, i, inString, escaped) ==
    IF i > Len(s) THEN << >>
    ELSE IF inString
         THEN <<s[i]>> \o CompactFrom(s, i + 1, escaped \/ s[i] # "\"", ~escaped /\ s[i] = "\\")
    ELSE IF s[i] \in JSONSpace THEN CompactFrom(s, i + 1, FALSE, FALSE)
    ELSE <<s[i]>> \o CompactFrom(s, i + 1, s[i] = "\"", FALSE)

\* json.Compact, r being the scan of the text
Compact(input, r) ==
    IF r.err # "" THEN [text |-> << >>, err |-> r.err]
    ELSE [text |-> CompactFrom(input, 1, FALSE, FALSE), err |-> ""]

HexChars == <<"0", "1", "2", "3", "4", "5", "6", "7", "8", "9", "a", "b", "c", "d", "e", "f">>

\* the escape \u00xx of a character
UnicodeEscape(code) == <<"\\", "u", "0", "0">> \o <<HexChars[(code \div 16) + 1], HexChars[(code % 16) + 1]>>

\* what the encoder writes for a character of a string
EncodeChar(c, escapeHTML) ==
    IF c = "\"" THEN <<"\\", "\"">>
    ELSE IF c = "\\" THEN <<"\\", "\\">>
    ELSE IF c = "\n" THEN <<"\\", "n">>
    ELSE IF c = "\r" THEN <<"\\", "r">>
    ELSE IF c = "\t" THEN <<"\\", "t">>
    ELSE IF c \in ControlChars \/ (escapeHTML /\ c \in {"<", ">", "&"}) THEN UnicodeEscape(CharCode(c))
    ELSE <<c>>

\* a string as the encoder writes it
EncodeString(s, escapeHTML) ==
    <<"\"">> \o Concat([i \in 1..Len(s) |-> EncodeChar(s[i], escapeHTML)]) \o <<"\"">>

\* the encoder's text of a float64 d that is not zero: format 'e' below 1e-6
\* and from 1e21, with e-0x written e-x; format 'f' between
FormatFloat(d) ==
    (IF d.neg THEN <<"-">> ELSE << >>)
        \o (IF d.pos < -6 \/ d.pos >= 21
            THEN <<Head(d.digits)>> \o (IF Len(d.digits) > 1 THEN <<".">> \o Tail(d.digits) ELSE << >>)
                    \o (IF d.pos < 0 THEN <<"e", "-">> ELSE <<"e", "+">>)
                    \o (IF d.pos >= 0 /\ d.pos < 10 THEN <<"0">> ELSE << >>)
                    \o FormatInt(IF d.pos < 0 THEN -d.pos ELSE d.pos)
            ELSE IF d.pos < 0 THEN <<"0", ".">> \o Repeat(<<"0">>, -d.pos - 1) \o d.digits
            ELSE IF Len(d.digits) <= d.pos + 1 THEN d.digits \o Repeat(<<"0">>, d.pos + 1 - Len(d.digits))
            ELSE SubSeq(d.digits, 1, d.pos + 1) \o <<".">> \o SubSeq(d.digits, d.pos + 2, Len(d.digits)))

\* what the encoder writes for a float64
EncodeFloat(d) == IF d.digits = << >> THEN <<"0">> ELSE FormatFloat(d)

\* the indentation of depth levels
IndentOf(depth) == Repeat(<<" ", " ">>, depth)

\* an array or object of the element texts, indented: [] and {} when empty
EncodeItems(texts, depth, open, close) ==
    IF Len(texts) = 0 THEN <<open, close>>
    ELSE <<open, "\n">> \o IndentOf(depth + 1)
            \o Join(texts, <<",", "\n">> \o IndentOf(depth + 1))
            \o <<"\n">> \o IndentOf(depth) \o <<close>>

RECURSIVE EncodeValue(_, _, _)

\* the members of the map m, keys being its sorted keys
EncodeMembers(m, keys, depth, escapeHTML) ==
    [i \in 1..Len(keys) |->
        EncodeString(keys[i], escapeHTML) \o <<":", " ">> \o EncodeValue(m[keys[i]], depth + 1, escapeHTML)]

\* the indented text of a value at a depth
EncodeValue(v, depth, escapeHTML) ==
    CASE v.k = "null" -> <<"n", "u", "l", "l">>
      [] v.k = "bool" -> IF v.v THEN <<"t", "r", "u", "e">> ELSE <<"f", "a", "l", "s", "e">>
      [] v.k \in {"number", "int64"} -> v.v
      [] v.k = "float64" -> EncodeFloat(v.v)
      [] v.k = "string" -> EncodeString(v.v, escapeHTML)
      [] v.k = "strings" ->
            EncodeItems([i \in 1..Len(v.v) |-> EncodeString(v.v[i], escapeHTML)], depth, "[", "]")
      [] v.k = "array" ->
            EncodeItems([i \in 1..Len(v.v) |-> EncodeValue(v.v[i], depth + 1, escapeHTML)], depth, "[", "]")
      [] v.k = "map" ->
            EncodeItems(EncodeMembers(v.v, SortStrings(DOMAIN v.v), depth, escapeHTML), depth, "{", "}")

\* json.MarshalIndent(v, "", "  ")
MarshalIndent(v) == EncodeValue(v, 0, TRUE)

\* an Encoder with SetEscapeHTML(false) and SetIndent("", "  "): Encode(v)
Encode(v) == EncodeValue(v, 0, FALSE) \o <<"\n">>

\* JSONToSchema, data being the decoded input
SchemaOfDecoded(data) ==
    IF data.err # "" THEN [text |-> << >>, err |-> data.err]
    ELSE [text |-> MarshalIndent(buildSchema(data.val)), err |-> ""]

\* JSONToSchema
JSONToSchema(input) == SchemaOfDecoded(decodeJSONValue(input))

\* SchemaToJSON, schema being the decoded input
SampleOfDecoded(schema) ==
    IF schema.err # "" THEN [text |-> << >>, err |-> schema.err]
    ELSE [text |-> Encode(sampleFromSchema(schema.val)), err |-> ""]

\* SchemaToJSON
SchemaToJSON(input) == SampleOfDecoded(decodeJSONValue(input))

\* JSONToTOON on JSON text, data being the decoded input
TOONOfDecoded(data) ==
    IF data.err # "" THEN [text |-> << >>, err |-> data.err]
    ELSE [text |-> JSONToTOON(data.val), err |-> ""]

\* the pretty printing branch of normalizeJSONOutput, v being the result of
\* json.Unmarshal
IndentDecoded(v) ==
    IF v.err # "" THEN [text |-> << >>, err |-> v.err]
    ELSE [text |-> TrimRight(Encode(v.val), {"\n"}), err |-> ""]

-----------------------------------------------------------------------------
(* The conversion hub: ConvertFormats and FormatContent.  A call's outcome  *)
(* is [text, err, panic, calls]: the returned text and error ("" for nil),  *)
(* whether the call panicked instead of returning, and the converters it    *)
(* invoked, in order, each with whether it returned a nil error.            *)

formatJSON == "JSON"
formatGoStruct == "Go Struct"
formatYAML == "YAML"
formatTOML == "TOML"
formatXML == "XML"
formatSchema == "JSON Schema"
formatGraphQL == "GraphQL Schema"
formatProtobuf == "Protobuf"
formatTOON == "TOON"
formatMsgPack == "MsgPack"

\* the adapter table; no entry holds a nil function, so the nil checks of
\* ConvertFormats and FormatContent never fail
adapters ==
    (formatJSON :> [ToJSON |-> "JSON.ToJSON", FromJSON |-> "JSON.FromJSON"])
    @@ (formatGoStruct :> [ToJSON |-> "GoStructToJSON", FromJSON |-> "JSONToGoStruct"])
    @@ (formatYAML :> [ToJSON |-> "YAMLToJSON", FromJSON |-> "JSONToYAML"])
    @@ (formatTOML :> [ToJSON |-> "TOMLToJSON", FromJSON |-> "JSONToTOML"])
    @@ (formatXML :> [ToJSON |-> "XMLToJSON", FromJSON |-> "JSONToXML"])
    @@ (formatSchema :> [ToJSON |-> "SchemaToJSON", FromJSON |-> "JSONToSchema"])
    @@ (formatGraphQL :> [ToJSON |-> "GraphQLToJSON", FromJSON |-> "JSONToGraphQL"])
    @@ (formatProtobuf :> [ToJSON |-> "ProtoToJSON", FromJSON |-> "JSONToProto"])
    @@ (formatTOON :> [ToJSON |-> "TOONToJSON", FromJSON |-> "JSONToTOON"])
    @@ (formatMsgPack :> [ToJSON |-> "MsgPackToJSON", FromJSON |-> "JSONToMsgPack"])

\* a return of (text, nil) and of ("", err) by the hub itself
Ret(text) == [text |-> text, err |-> "", panic |-> FALSE, calls |-> << >>]
Err(msg) == [text |-> << >>, err |-> msg, panic |-> FALSE, calls |-> << >>]

\* a converter whose work is done by an encoding library (JSON, YAML, TOML,
\* XML, MsgPack, base64): it returns its output with a nil error, or the
\* empty text with the library's error; every error path writes return "".
LibraryOutcomes(fn, input) ==
    { [text |-> <<fn>> \o input, err |-> "", panic |-> FALSE, calls |-> <<[fn |-> fn, ok |-> TRUE]>>],
      [text |-> << >>, err |-> fn, panic |-> FALSE, calls |-> <<[fn |-> fn, ok |-> FALSE]>>] }

\* the converters of struct text, GraphQL and Protobuf: the full text, or an
\* error and no text
MissingFns ==
    { "GoStructToJSON", "JSONToGoStruct", "GraphQLToJSON", "JSONToGraphQL", "ProtoToJSON",
      "JSONToProto", "GoStructToGraphQL", "GraphQLToGoStruct", "GoStructToProto", "ProtoToGoStruct" }

MissingOutcomes(fn, input) ==
    { [text |-> <<fn>> \o input, err |-> "", panic |-> FALSE, calls |-> <<[fn |-> fn, ok |-> TRUE]>>],
      [text |-> << >>, err |-> fn, panic |-> FALSE, calls |-> <<[fn |-> fn, ok |-> FALSE]>>] }

\* TOONToJSON as a call of the hub, r being the parser's result: its error
\* with the empty text, the indented JSON text of the value, or the panic of
\* make with a negative length
ToonOutcomes(input, r) ==
    IF r.err = "panic: makeslice: cap out of range"
    THEN {[text |-> << >>, err |-> "", panic |-> TRUE, calls |-> <<[fn |-> "TOONToJSON", ok |-> FALSE]>>]}
    ELSE IF r.err # ""
    THEN {[text |-> << >>, err |-> r.err, panic |-> FALSE, calls |-> <<[fn |-> "TOONToJSON", ok |-> FALSE]>>]}
    ELSE {[text |-> MarshalIndent(r.val), err |-> "", panic |-> FALSE,
           calls |-> <<[fn |-> "TOONToJSON", ok |-> TRUE]>>]}

\* formatGoSource as a call of the hub, r being its result
GoSourceOutcomes(r) ==
    {[text |-> r.text, err |-> r.err, panic |-> FALSE,
      calls |-> <<[fn |-> "formatGoSource", ok |-> r.err = ""]>>]}

\* normalizeJSONOutput: json.Compact, or json.Unmarshal and an indenting
\* encoder whose last line feed is trimmed
normalizeJSONOutput(input, minify) ==
    IF minify THEN Compact(input, WholeText(input, ParseValue(input, SkipSpace(input, 1), TRUE)))
    ELSE IndentDecoded(Unmarshal(input))

\* compactXML
compactXML(src) == LibraryOutcomes("compactXML", src)

\* JSONToTOML as a call of the hub, data being the decoded input: the
\* decoder's error, the error of a root that is no object, or toml.Marshal
JSONToTOML(input, data) ==
    IF data.err # ""
    THEN {[text |-> << >>, err |-> data.err, panic |-> FALSE, calls |-> <<[fn |-> "JSONToTOML", ok |-> FALSE]>>]}
    ELSE IF data.val.k # "map"
    THEN {[text |-> << >>, err |-> "TOML root must be an object", panic |-> FALSE,
           calls |-> <<[fn |-> "JSONToTOML", ok |-> FALSE]>>]}
    ELSE LibraryOutcomes("JSONToTOML", input)

\* the converters and the formatter of the source that work on JSON text
JSONFns == {"normalizeJSONOutput", "JSONToSchema", "SchemaToJSON", "JSONToTOON"}

\* the text and error r returned by fn, as a call of the hub
Returned(fn, r) ==
    {[text |-> r.text, err |-> r.err, panic |-> FALSE, calls |-> <<[fn |-> fn, ok |-> r.err = ""]>>]}

\* one of JSONFns on input
CallJSON(fn, input, minify) ==
    CASE fn = "normalizeJSONOutput" -> normalizeJSONOutput(input, minify)
      [] fn = "JSONToSchema" -> JSONToSchema(input)
      [] fn = "SchemaToJSON" -> SchemaToJSON(input)
      [] fn = "JSONToTOON" -> TOONOfDecoded(decodeJSONValue(input))

\* the text was written by a converter that is not computed: it starts with
\* the converter's name, and what a function makes of it is not computed
Opaque(text) ==
    /\ text # << >>
    /\ text[1] \in {adapters[f].ToJSON : f \in DOMAIN adapters} \cup {adapters[f].FromJSON : f \in DOMAIN adapters}
                        \cup MissingFns \cup {"normalizeJSONOutput", "compactXML"}

\* a call of converter or formatter fn on input
Call(fn, input, minify) ==
    IF fn \in {"JSON.ToJSON", "JSON.FromJSON"}
    THEN {[text |-> input, err |-> "", panic |-> FALSE, calls |-> <<[fn |-> fn, ok |-> TRUE]>>]}
    ELSE IF fn = "TOONToJSON" THEN ToonOutcomes(input, TOONToJSON(input))
    ELSE IF fn = "formatGoSource" THEN GoSourceOutcomes(formatGoSource(input))
    ELSE IF fn = "compactXML" THEN compactXML(input)
    ELSE IF fn \in MissingFns THEN MissingOutcomes(fn, input)
    ELSE IF fn \in JSONFns /\ ~Opaque(input) THEN Returned(fn, CallJSON(fn, input, minify))
    ELSE IF fn = "JSONToTOML" /\ ~Opaque(input) THEN JSONToTOML(input, decodeJSONValue(input))
    ELSE LibraryOutcomes(fn, input)

\* x, err := first; if err != nil { return "", err }; return fn(x)
AndThen(first, fn, minify) ==
    UNION { IF o.panic THEN {o}
            ELSE IF o.err # "" THEN {[o EXCEPT !.text = << >>]}
            ELSE {[r EXCEPT !.calls = o.calls \o r.calls] : r \in Call(fn, o.text, minify)} : o \in first }

\* the calls steps in order, each on the text of the one before it, from the
\* outcomes so far; a call that fails or panics ends the run
RECURSIVE RunSteps(_, _, _)
RunSteps(steps, outcomes, minify) ==
    IF steps = << >> THEN outcomes
    ELSE RunSteps(Tail(steps), AndThen(outcomes, Head(steps), minify), minify)

\* the switch of ConvertFormats with the direct pairs sent through the JSON hub
RouteHubFirst(from, to) ==
    IF from = to THEN "identity"
    ELSE IF from \notin DOMAIN adapters THEN "unsupported source format"
    ELSE IF to \notin DOMAIN adapters THEN "unsupported target format"
    ELSE "hub"

\* the switch of ConvertFormats without its first case
RouteNoIdentity(from, to) ==
    IF from = formatGoStruct /\ to = formatGraphQL THEN "GoStructToGraphQL"
    ELSE IF from = formatGraphQL /\ to = formatGoStruct THEN "GraphQLToGoStruct"
    ELSE IF from = formatGoStruct /\ to = formatProtobuf THEN "GoStructToProto"
    ELSE IF from = formatProtobuf /\ to = formatGoStruct THEN "ProtoToGoStruct"
    ELSE IF from \notin DOMAIN adapters THEN "unsupported source format"
    ELSE IF to \notin DOMAIN adapters THEN "unsupported target format"
    ELSE "hub"

\* the switch of ConvertFormats and its two adapter lookups: the case taken
Route(from, to) ==
    IF from = to THEN "identity"
    ELSE IF from = formatGoStruct /\ to = formatGraphQL THEN "GoStructToGraphQL"
    ELSE IF from = formatGraphQL /\ to = formatGoStruct THEN "GraphQLToGoStruct"
    ELSE IF from = formatGoStruct /\ to = formatProtobuf THEN "GoStructToProto"
    ELSE IF from = formatProtobuf /\ to = formatGoStruct THEN "ProtoToGoStruct"
    ELSE IF from \notin DOMAIN adapters THEN "unsupported source format"
    ELSE IF to \notin DOMAIN adapters THEN "unsupported target format"
    ELSE "hub"

\* the calls of the JSON hub: the source's ToJSON unless the source is JSON
\* (mid = input), the target's FromJSON unless the target is JSON (return mid)
HubSteps(from, to) ==
    (IF from = formatJSON THEN << >> ELSE <<adapters[from].ToJSON>>)
        \o (IF to = formatJSON THEN << >> ELSE <<adapters[to].FromJSON>>)

\* ConvertFormats on the case route of its switch: a return without a call,
\* the direct converter, or the calls of the hub
ConvertRoute(route, from, to, input) ==
    IF route = "identity" THEN {Ret(input)}
    ELSE IF route \in {"unsupported source format", "unsupported target format"} THEN {Err(route)}
    ELSE RunSteps(IF route = "hub" THEN HubSteps(from, to) ELSE <<route>>, {Ret(input)}, FALSE)

\* ConvertFormats: the set of its outcomes
ConvertFormats(from, to, input) == ConvertRoute(Route(from, to), from, to, input)

\* the calls of FormatContent for a format it supports
FormatSteps(formatName, minify) ==
    IF formatName = formatGoStruct THEN <<"formatGoSource">>
    ELSE IF formatName = formatJSON THEN <<"normalizeJSONOutput">>
    ELSE IF formatName = formatXML
         THEN IF minify THEN <<"compactXML">> ELSE <<"XMLToJSON", "JSONToXML">>
    ELSE <<adapters[formatName].ToJSON, "normalizeJSONOutput", adapters[formatName].FromJSON>>

\* FormatContent: the set of its outcomes
FormatContent(formatName, input, minify) ==
    IF formatName \notin {formatGoStruct, formatJSON, formatXML} \cup DOMAIN adapters
    THEN {Err("unsupported format")}
    ELSE RunSteps(FormatSteps(formatName, minify), {Ret(input)}, minify)

\* the format names of the calls: the registered ones and one that is not
FormatNames == DOMAIN adapters \cup {"CSV"}

\* texts of the formats: TOON, struct text and JSON, the numbers of the JSON
\* texts being integers, decimals with a fraction and exponents in and out of
\* the range of float64
HubInputs ==
    { <<"[", "1", "]">>, <<"1", ".", "0">>, <<"{", "\"", "a", "\"", ":", " ", "1", "}">>, <<"{", "\"", "a", "\"", ":", "{", "\"", "b", "\"", ":", "[", "1", ".", "5", "0", ",", "\"", "x", "\"", "]", "}", "}">>, <<"1", "2", " ", "[", " ">>, <<"[", "1", "e", "9", "9", "9", "]">>,
      <<"{", "\"", "t", "y", "p", "e", "\"", ":", "\"", "n", "u", "m", "b", "e", "r", "\"", ",", "\"", "d", "e", "f", "a", "u", "l", "t", "\"", ":", "1", "e", "9", "9", "9", "}">>, <<"{", "\"", "t", "y", "p", "e", "\"", ":", "\"", "n", "u", "m", "b", "e", "r", "\"", ",", "\"", "d", "e", "f", "a", "u", "l", "t", "\"", ":", "1", ".", "0", "}">>,
      <<"{", "\"", "p", "r", "o", "p", "e", "r", "t", "i", "e", "s", "\"", ":", "{", "\"", "n", "\"", ":", "{", "}", "}", "}">>,
      <<"n", ":", " ", "1", ".", "5", "0">>,
      << >>, <<"{", "}">>, <<"a", ":", " ", "1">>, <<"[", "-", "1", "]", ":">>, <<"[", "1", "]", "{", "a", "}", ":", "\n", " ", " ", "1", ",", "2">>, <<"t", "y", "p", "e", " ", "T", " ", "s", "t", "r", "u", "c", "t", "{", "}">> }

Init ==
    /\ InitCache(TRUE)
    /\ op = "init"
    /\ arg \in {[fn |-> "ConvertFormats", from |-> f, to |-> t, input |-> i, minify |-> FALSE] :
                    f \in FormatNames, t \in FormatNames, i \in HubInputs}
          \cup {[fn |-> "FormatContent", from |-> f, to |-> f, input |-> i, minify |-> m] :
                    f \in FormatNames, i \in HubInputs, m \in BOOLEAN}
    /\ mid = << >>
    /\ res = None

\* one call of ConvertFormats(from, to, input)
ConvertFormatsCall ==
    /\ op = "init"
    /\ arg.fn = "ConvertFormats"
    /\ \E o \in ConvertFormats(arg.from, arg.to, arg.input) :
          /\ mid' = o.calls
          /\ res' = [text |-> o.text, err |-> o.err, panic |-> o.panic]
    /\ op' = "ConvertFormats"
    /\ UNCHANGED <<arg, cacheVars>>

\* one call of FormatContent(formatName, input, minify)
FormatContentCall ==
    /\ op = "init"
    /\ arg.fn = "FormatContent"
    /\ \E o \in FormatContent(arg.from, arg.input, arg.minify) :
          /\ mid' = o.calls
          /\ res' = [text |-> o.text, err |-> o.err, panic |-> o.panic]
    /\ op' = "FormatContent"
    /\ UNCHANGED <<arg, cacheVars>>

\* a second call of FormatContent, on the same format and input with the
\* other setting of minify; mid keeps what the first call returned
FormatContentOther ==
    /\ op = "FormatContent"
    /\ \E o \in FormatContent(arg.from, arg.input, ~arg.minify) :
          res' = [text |-> o.text, err |-> o.err, panic |-> o.panic]
    /\ mid' = res
    /\ op' = "FormatContentOther"
    /\ UNCHANGED <<arg, cacheVars>>

Next == ConvertFormatsCall \/ FormatContentCall \/ FormatContentOther

Spec == Init /\ [][Next]_vars

\* C1: ConvertFormats(F, F, text) returns text itself, byte for byte, with
\* no error, for every registered format F.
C1_IdentityConversion ==
    (op = "ConvertFormats" /\ arg.from = arg.to /\ arg.from \in DOMAIN adapters) =>
        res.text = arg.input /\ res.err = "" /\ ~res.panic

\* YAML to YAML returned the input
C1_Witness ==
    /\ op = "ConvertFormats"
    /\ arg.from = formatYAML /\ arg.to = formatYAML
    /\ arg.input = <<"a", ":", " ", "1">>
    /\ res = [text |-> <<"a", ":", " ", "1">>, err |-> "", panic |-> FALSE]

\* C5: every call of ConvertFormats and FormatContent returns, with either
\* the full text and no error or the empty text and an error; a text never
\* comes with an error.
C5_NoPartialOutput ==
    op \in {"ConvertFormats", "FormatContent"} =>
        /\ ~res.panic
        /\ res.err # "" => res.text = << >>

\* the four direct pairs and their converters
DirectPairs ==
    (<<formatGoStruct, formatGraphQL>> :> "GoStructToGraphQL")
    @@ (<<formatGraphQL, formatGoStruct>> :> "GraphQLToGoStruct")
    @@ (<<formatGoStruct, formatProtobuf>> :> "GoStructToProto")
    @@ (<<formatProtobuf, formatGoStruct>> :> "ProtoToGoStruct")

\* the names of the calls of a trace
CallNames(calls) == [i \in 1..Len(calls) |-> calls[i].fn]

\* C6: ConvertFormats selects its route in priority order: identity, then
\* the four direct pairs (their converter only), then the unsupported
\* source and unsupported target errors before any call, then the JSON hub:
\* the source's ToJSON, then the target's FromJSON unless ToJSON failed.
C6_RouteSelection ==
    op = "ConvertFormats" =>
        LET from == arg.from
            to == arg.to
            toJSON == IF from = formatJSON THEN << >> ELSE <<adapters[from].ToJSON>>
            fromJSON == IF to = formatJSON THEN << >> ELSE <<adapters[to].FromJSON>>
        IN  IF from = to THEN mid = << >> /\ res.text = arg.input /\ res.err = ""
            ELSE IF <<from, to>> \in DOMAIN DirectPairs
                 THEN CallNames(mid) = <<DirectPairs[<<from, to>>]>>
            ELSE IF from \notin DOMAIN adapters
                 THEN mid = << >> /\ res.err = "unsupported source format"
            ELSE IF to \notin DOMAIN adapters
                 THEN mid = << >> /\ res.err = "unsupported target format"
            ELSE \/ CallNames(mid) = toJSON \o fromJSON /\ \A i \in 1..Len(toJSON) : mid[i].ok
                 \/ CallNames(mid) = toJSON /\ toJSON # << >> /\ ~mid[1].ok /\ (res.panic \/ res.err # "")

\* Go Struct to GraphQL Schema called the direct converter and nothing else
C6_Witness ==
    /\ op = "ConvertFormats"
    /\ arg.from = formatGoStruct /\ arg.to = formatGraphQL
    /\ mid = <<[fn |-> "GoStructToGraphQL", ok |-> TRUE]>>

\* the text is one JSON value and white space
WellFormed(input) == WholeText(input, ParseValue(input, SkipSpace(input, 1), TRUE)).err = ""

\* C15: a well-formed JSON text whose root is not an object is rejected by
\* the conversion to JSON Schema and by the conversion to TOML: an error is
\* returned and no text.
C15_NonObjectRoot ==
    ( /\ op = "ConvertFormats"
      /\ arg.from = formatJSON
      /\ arg.to \in {formatSchema, formatTOML}
      /\ WellFormed(arg.input)
      /\ decodeJSONValue(arg.input).val.k # "map" ) =>
        res.err # "" /\ res.text = << >>

\* a is an integer literal: no fraction and no exponent
IsIntegerLiteral(a) == \A i \in 1..Len(a) : a[i] \notin {".", "e", "E"}

\* two values decoded with UseNumber are the same JSON value, each number
\* with the same numeric value and an integer on both sides or on neither
RECURSIVE SameJSON(_, _)
SameJSON(a, b) ==
    /\ a.k = b.k
    /\ CASE a.k = "number" -> Decimal(a.v) = Decimal(b.v) /\ IsIntegerLiteral(a.v) = IsIntegerLiteral(b.v)
         [] a.k = "array" -> Len(a.v) = Len(b.v) /\ \A i \in 1..Len(a.v) : SameJSON(a.v[i], b.v[i])
         [] a.k = "map" -> DOMAIN a.v = DOMAIN b.v /\ \A key \in DOMAIN a.v : SameJSON(a.v[key], b.v[key])
         [] OTHER -> a.v = b.v

\* C16: FormatContent of a well-formed JSON text returns, for minify true and
\* for minify false, a text of the same JSON value: every number keeps its
\* numeric value, an integer literal stays one and a float literal stays one.
C16_JSONFormatKeepsValue ==
    (op = "FormatContent" /\ arg.from = formatJSON /\ WellFormed(arg.input)) =>
        /\ res.err = ""
        /\ ~res.panic
        /\ WellFormed(res.text)
        /\ SameJSON(decodeJSONValue(arg.input).val, decodeJSONValue(res.text).val)

\* the formats other than JSON and XML whose formatting is computed from the
\* source: the others end in a library's printer
ComputedFormats == {formatGoStruct, formatSchema, formatTOON}

\* C17: for a registered format other than JSON and XML, FormatContent
\* returns the same text and error for minify true and for minify false.
C17_MinifyNoOp ==
    (op = "FormatContentOther" /\ arg.from \in ComputedFormats) => res = mid

-----------------------------------------------------------------------------
(* The user-agent version cache under concurrent callers: ensureLatestData, *)
(* triggerBackgroundFetch and the goroutine it starts, one action per lock  *)
(* operation with the statements the lock then protects, per source fetched *)
(* and per goroutine started.  A *versionCache is an index into caches; an  *)
(* object is [browsers, platforms, fetchedAt], the maps by the slugs that   *)
(* have rows.                                                               *)

\* the variables of the text functions, which the cache leaves alone
textVars == <<op, arg, mid, res>>

CallerId(c) == <<"caller", c>>
RefresherId(r) == <<"refresh", r>>

\* sync.RWMutex: RLock waits for the writer, Lock for the writer and readers
CanRLock(mu) == mu.writer = {}
CanLock(mu) == mu.writer = {} /\ mu.readers = {}
RLock(mu, self) == [mu EXCEPT !.readers = @ \cup {self}]
RUnlock(mu, self) == [mu EXCEPT !.readers = @ \ {self}]
Lock(mu, self) == [mu EXCEPT !.writer = {self}]

\* an Unlock that is left out
UnlockNever(mu, self) == mu

Unlock(mu, self) == [mu EXCEPT !.writer = @ \ {self}]

\* time.Since(data.fetchedAt) >= cacheTTL
Expired(data) == now - caches[data].fetchedAt >= cacheTTL

\* return data, nil
ReturnData(caller) == [caller EXCEPT !.pc = "idle", !.ret = [data |-> caller.data, err |-> ""]]

\* ensureLatestData is called: RLock, data := latestData, expired.  A call
\* that could start a fetch beyond MaxFetches is not made.
EnsureLatestData(c) ==
    /\ callers[c].pc = "idle"
    /\ Len(caches) <= MaxFetches \/ ~networkAllowed \/ ~Expired(latestData)
    /\ CanRLock(latestDataMu)
    /\ latestDataMu' = RLock(latestDataMu, CallerId(c))
    /\ callers' = [callers EXCEPT ![c] =
                      [pc |-> "RLocked", data |-> latestData, expired |-> Expired(latestData),
                       start |-> FALSE, ret |-> None]]
    /\ UNCHANGED <<textVars, latestData, fetchInProgress, networkAllowed, caches, now, refreshers>>

\* RUnlock; then triggerBackgroundFetch if expired && networkAllowed, else
\* the return
EnsureRUnlock(c) ==
    /\ callers[c].pc = "RLocked"
    /\ latestDataMu' = RUnlock(latestDataMu, CallerId(c))
    /\ callers' = [callers EXCEPT ![c] =
                      IF @.expired /\ networkAllowed THEN [@ EXCEPT !.pc = "trigger"] ELSE ReturnData(@)]
    /\ UNCHANGED <<textVars, latestData, fetchInProgress, networkAllowed, caches, now, refreshers>>

\* a fetch is started whatever the flag
StartsFetchAlways(inProgress) == TRUE

\* if fetchInProgress { ...; return }
StartsFetch(inProgress) == ~inProgress

\* triggerBackgroundFetch: the test of networkAllowed, Lock, the test of
\* fetchInProgress and fetchInProgress = true
TriggerLock(c) ==
    /\ callers[c].pc = "trigger"
    /\ IF ~networkAllowed
       THEN /\ callers' = [callers EXCEPT ![c] = ReturnData(@)]
            /\ UNCHANGED <<latestDataMu, fetchInProgress>>
       ELSE /\ CanLock(latestDataMu)
            /\ latestDataMu' = Lock(latestDataMu, CallerId(c))
            /\ callers' = [callers EXCEPT ![c] = [@ EXCEPT !.pc = "Locked", !.start = StartsFetch(fetchInProgress)]]
            /\ fetchInProgress' = (fetchInProgress \/ StartsFetch(fetchInProgress))
    /\ UNCHANGED <<textVars, latestData, networkAllowed, caches, now, refreshers>>

\* Unlock, on either branch; the return when a fetch was in progress
TriggerUnlock(c) ==
    /\ callers[c].pc = "Locked"
    /\ latestDataMu' = Unlock(latestDataMu, CallerId(c))
    /\ callers' = [callers EXCEPT ![c] = IF @.start THEN [@ EXCEPT !.pc = "go"] ELSE ReturnData(@)]
    /\ UNCHANGED <<textVars, latestData, fetchInProgress, networkAllowed, caches, now, refreshers>>

\* go func() { ... }(), and the returns of triggerBackgroundFetch and of
\* ensureLatestData
Go(c) ==
    /\ callers[c].pc = "go"
    /\ \E r \in Refreshers :
          /\ refreshers[r].pc = "none"
          /\ refreshers' = [refreshers EXCEPT ![r] = [pc |-> "started", cache |-> 0, err |-> ""]]
    /\ callers' = [callers EXCEPT ![c] = ReturnData(@)]
    /\ UNCHANGED <<textVars, latestDataMu, latestData, fetchInProgress, networkAllowed, caches, now>>

\* fetchLatestData: cache := &versionCache{..., fetchedAt: time.Now()}
NewCache(r) ==
    /\ refreshers[r].pc = "started"
    /\ caches' = Append(caches, [browsers |-> {}, platforms |-> {}, fetchedAt |-> now])
    /\ refreshers' = [refreshers EXCEPT ![r] = [@ EXCEPT !.pc = "fetching", !.cache = Len(caches) + 1]]
    /\ UNCHANGED <<textVars, latestDataMu, latestData, fetchInProgress, networkAllowed, now, callers>>

\* what fetchDocumentRows returns: an error, rows, or a document without a
\* table
FetchOutcomes == {"error", "rows", "no rows"}

\* the source has rows: those of its table, or for the browser vivaldi those
\* of parseVivaldiDoc
HasRows(kind, slug, outcome, vivaldiRows) ==
    outcome = "rows" \/ (outcome = "no rows" /\ kind = "browser" /\ slug = "vivaldi" /\ vivaldiRows)

\* the error of fetchLatestData for a source without rows
SourceError(slug, outcome) == IF outcome = "error" THEN <<"fetch", slug>> ELSE <<"no table data for", slug>>

\* the object after cache.browsers[slug] = rows or cache.platforms[slug] = rows
WithRows(cache, kind, slug) ==
    IF kind = "browser" THEN [cache EXCEPT !.browsers = @ \cup {slug}]
    ELSE [cache EXCEPT !.platforms = @ \cup {slug}]

\* both loops of fetchLatestData have ended
Complete(cache) == cache.browsers = browserSources /\ cache.platforms = platformSources

\* the goroutine publishes whatever fetchLatestData returned
AfterFetchPublish(err) == "fetched"

\* the goroutine ends at an error without running its deferred function
AfterFetchNoDefer(err) == IF err # "" THEN "none" ELSE "fetched"

\* cache, err := fetchLatestData(...); if err != nil { return }
AfterFetch(err) == IF err # "" THEN "deferred" ELSE "fetched"

\* one iteration of a loop of fetchLatestData, the browsers before the
\* platforms, each in the order of the map's range: the error return, or the
\* rows stored and, after the last source, the return of the cache
FetchSource(r, kind, slug, outcome, vivaldiRows) ==
    /\ refreshers[r].pc = "fetching"
    /\ IF HasRows(kind, slug, outcome, vivaldiRows)
       THEN /\ caches' = [caches EXCEPT ![refreshers[r].cache] = WithRows(@, kind, slug)]
            /\ refreshers' = [refreshers EXCEPT ![r] =
                                 IF Complete(WithRows(caches[@.cache], kind, slug))
                                 THEN [@ EXCEPT !.pc = AfterFetch("")]
                                 ELSE @]
       ELSE /\ refreshers' = [refreshers EXCEPT ![r] =
                                 [@ EXCEPT !.pc = AfterFetch(SourceError(slug, outcome)),
                                           !.err = SourceError(slug, outcome)]]
            /\ UNCHANGED caches
    /\ UNCHANGED <<textVars, latestDataMu, latestData, fetchInProgress, networkAllowed, now, callers>>

\* the sources the loops have still to fetch
Remaining(cache) ==
    IF cache.browsers # browserSources
    THEN {<<"browser", slug>> : slug \in browserSources \ cache.browsers}
    ELSE {<<"platform", slug>> : slug \in platformSources \ cache.platforms}

FetchNext(r) ==
    /\ refreshers[r].pc = "fetching"
    /\ \E source \in Remaining(caches[refreshers[r].cache]), outcome \in FetchOutcomes, vivaldiRows \in BOOLEAN :
          FetchSource(r, source[1], source[2], outcome, vivaldiRows)

\* latestDataMu.Lock(); latestData = cache
PublishLock(r) ==
    /\ refreshers[r].pc = "fetched"
    /\ CanLock(latestDataMu)
    /\ latestDataMu' = Lock(latestDataMu, RefresherId(r))
    /\ latestData' = refreshers[r].cache
    /\ refreshers' = [refreshers EXCEPT ![r] = [@ EXCEPT !.pc = "publishing"]]
    /\ UNCHANGED <<textVars, fetchInProgress, networkAllowed, caches, now, callers>>

\* latestDataMu.Unlock() after the assignment
PublishUnlock(r) ==
    /\ refreshers[r].pc = "publishing"
    /\ latestDataMu' = Unlock(latestDataMu, RefresherId(r))
    /\ refreshers' = [refreshers EXCEPT ![r] = [@ EXCEPT !.pc = "deferred"]]
    /\ UNCHANGED <<textVars, latestData, fetchInProgress, networkAllowed, caches, now, callers>>

\* the deferred function: latestDataMu.Lock(); fetchInProgress = false
DeferLock(r) ==
    /\ refreshers[r].pc = "deferred"
    /\ CanLock(latestDataMu)
    /\ latestDataMu' = Lock(latestDataMu, RefresherId(r))
    /\ fetchInProgress' = FALSE
    /\ refreshers' = [refreshers EXCEPT ![r] = [@ EXCEPT !.pc = "clearing"]]
    /\ UNCHANGED <<textVars, latestData, networkAllowed, caches, now, callers>>

\* the deferred function: latestDataMu.Unlock(), and the goroutine ends
DeferUnlock(r) ==
    /\ refreshers[r].pc = "clearing"
    /\ latestDataMu' = Unlock(latestDataMu, RefresherId(r))
    /\ refreshers' = [refreshers EXCEPT ![r] = NoRefresher]
    /\ UNCHANGED <<textVars, latestData, fetchInProgress, networkAllowed, caches, now, callers>>

\* time passes
Tick ==
    /\ now < cacheTTL + MaxTicks * TickHours
    /\ now' = now + TickHours
    /\ UNCHANGED <<textVars, latestDataMu, latestData, fetchInProgress, networkAllowed, caches, callers, refreshers>>

InitUA ==
    /\ \E allowed \in BOOLEAN : InitCache(allowed)
    /\ op = "init"
    /\ arg = None
    /\ mid = None
    /\ res = None

CallerStep ==
    \E c \in Callers : EnsureLatestData(c) \/ EnsureRUnlock(c) \/ TriggerLock(c) \/ TriggerUnlock(c) \/ Go(c)

RefresherStep ==
    \E r \in Refreshers :
        NewCache(r) \/ FetchNext(r) \/ PublishLock(r) \/ PublishUnlock(r) \/ DeferLock(r) \/ DeferUnlock(r)

NextUA == CallerStep \/ RefresherStep \/ Tick

SpecUA == InitUA /\ [][NextUA]_vars

\* the refresh goroutines that have started and not ended
InFlight == {r \in Refreshers : refreshers[r].pc # "none"}

\* C18: at most one background refresh is in flight at any time, whatever
\* the interleaving of the callers; a caller that finds fetchInProgress set
\* starts none.
C18_SingleRefresh ==
    /\ Cardinality(InFlight) <= 1
    /\ \A c \in Callers : (callers[c].pc \in {"Locked", "go"} /\ callers[c].start) => InFlight = {}

\* a caller holds the lock having found fetchInProgress set, while the
\* refresh is fetching
C18_Witness ==
    \E c \in Callers, r \in Refreshers :
        /\ callers[c].pc = "Locked"
        /\ ~callers[c].start
        /\ refreshers[r].pc = "fetching"

\* the objects a caller or the package variable points to
Published == ({latestData} \cup {callers[c].data : c \in Callers}) \ {0}

\* C19: latestData is replaced only by the cache of a fetchLatestData that
\* returned no error, filled from every browser and platform source; a
\* failed fetch leaves latestData and its fetchedAt as they were, and no
\* published object is ever written.
C19_LastGoodSnapshot ==
    [][ /\ latestData' # latestData =>
            \E r \in Refreshers :
                /\ refreshers[r].pc = "fetched"
                /\ refreshers[r].err = ""
                /\ refreshers[r].cache = latestData'
                /\ Complete(caches[latestData'])
        /\ \A p \in Published : caches'[p] = caches[p]
        /\ \A r \in Refreshers : refreshers[r].err # "" => latestData' = latestData ]_vars

\* a second fetch failed after the first was published: the first is kept
C19_Witness ==
    /\ latestData = 2
    /\ \E r \in Refreshers : refreshers[r].err # "" /\ refreshers[r].cache = 3
    /\ caches[2].fetchedAt = cacheTTL

\* C20: ensureLatestData returns the snapshot it read with a nil error, and
\* latestDataMu is held only between a lock operation and the unlock that
\* follows it, never by a goroutine that is fetching from the network.
C20_CallersNeverWait ==
    /\ \A c \in Callers :
          /\ callers[c].ret # None => callers[c].ret = [data |-> callers[c].data, err |-> ""]
          /\ CallerId(c) \in latestDataMu.readers => callers[c].pc = "RLocked"
          /\ CallerId(c) \in latestDataMu.writer => callers[c].pc = "Locked"
    /\ \A r \in Refreshers :
          /\ RefresherId(r) \notin latestDataMu.readers
          /\ RefresherId(r) \in latestDataMu.writer => refreshers[r].pc \in {"publishing", "clearing"}

\* a caller holds the read lock and another has returned the fallback data
\* while a refresh is fetching
C20_Witness ==
    \E c \in Callers, d \in Callers, r \in Refreshers :
        /\ refreshers[r].pc = "fetching"
        /\ CallerId(c) \in latestDataMu.readers
        /\ callers[d].ret = [data |-> 1, err |-> ""]

\* a goroutine is in a call of latestDataMu.Lock()
WriterWaiting ==
    \/ \E r \in Refreshers : refreshers[r].pc \in {"fetched", "deferred"}
    \/ \E c \in Callers : callers[c].pc = "trigger"

\* sync.RWMutex: a blocked Lock call excludes new readers from acquiring the
\* lock, so a call of RLock waits while a Lock is pending
CallerStepFair ==
    \E c \in Callers :
        \/ ~WriterWaiting /\ EnsureLatestData(c)
        \/ EnsureRUnlock(c) \/ TriggerLock(c) \/ TriggerUnlock(c) \/ Go(c)

NextUAFair == CallerStepFair \/ RefresherStep \/ Tick

\* a caller inside ensureLatestData runs on to its return
CallerRuns(c) == EnsureRUnlock(c) \/ TriggerLock(c) \/ TriggerUnlock(c) \/ Go(c)

\* a started goroutine runs on to its end, and each fetch returns
RefresherRuns(r) ==
    NewCache(r) \/ FetchNext(r) \/ PublishLock(r) \/ PublishUnlock(r) \/ DeferLock(r) \/ DeferUnlock(r)

\* the cache under a scheduler that runs every goroutine that can take a
\* step; callers need not call again, and time need not pass
SpecUAFair ==
    /\ InitUA
    /\ [][NextUAFair]_vars
    /\ \A c \in Callers : WF_vars(CallerRuns(c))
    /\ \A r \in Refreshers : WF_vars(RefresherRuns(r))

\* the caller that set fetchInProgress is about to start the goroutine, or the
\* goroutine has started and not ended
RefreshPending ==
    \/ \E c \in Callers : callers[c].pc \in {"Locked", "go"} /\ callers[c].start
    \/ \E r \in Refreshers : refreshers[r].pc \in {"started", "fetching", "fetched", "publishing", "deferred"}

\* C29: whenever fetchInProgress is set, a refresh is on its way to clear it,
\* and the flag is cleared eventually, whether the fetch succeeded or failed.
C29_RefreshClears ==
    /\ [](fetchInProgress => RefreshPending)
    /\ fetchInProgress ~> ~fetchInProgress

\* after a first refresh failed and cleared the flag, a second one was started
\* and has cleared it again
C29_Witness ==
    /\ ~fetchInProgress
    /\ Len(caches) = 3
    /\ ~Complete(caches[2])
    /\ \E r \in Refreshers : refreshers[r].pc = "clearing" /\ refreshers[r].cache = 3

-----------------------------------------------------------------------------
(* exportName: the Go field name of a JSON key.  unicode.IsLetter,          *)
(* unicode.IsDigit and unicode.ToUpper are taken on ASCII keys.             *)

\* the loop of exportName from rune i on: runes collected so far, capNext
RECURSIVE exportRunes(_, _, _, _)
exportRunes(key, i, runes, capNext) ==
    IF i > Len(key) THEN runes
    ELSE IF key[i] \in Letters \/ IsDigit(key[i])
         THEN IF capNext THEN exportRunes(key, i + 1, Append(runes, ToUpperRune(key[i])), FALSE)
              ELSE exportRunes(key, i + 1, Append(runes, key[i]), FALSE)
    ELSE exportRunes(key, i + 1, runes, TRUE)

\* strings.TrimLeftFunc(out, r is not a letter and not '_')
RECURSIVE TrimLeftNonLetters(_)
TrimLeftNonLetters(out) ==
    IF out # << >> /\ out[1] \notin Letters /\ out[1] # "_" THEN TrimLeftNonLetters(Tail(out))
    ELSE out

\* exportName
exportName(key) == TrimLeftNonLetters(exportRunes(key, 1, << >>, TRUE))

MaxKeyLen == 4

KeyChars == { "a", "b", "Z", "1", "_", " " }

\* the keys of the unit test of exportName
TestKeys == { <<"u", "s", "e", "r", "_", "n", "a", "m", "e">>, <<"H", "T", "T", "P", "_", "s", "e", "r", "v", "e", "r", "_", "v", "2">>, <<"a", "1", " ", "b", "2">> }

InitExport ==
    /\ InitCache(TRUE)
    /\ op = "init"
    /\ arg \in SeqsOf(KeyChars, 0, MaxKeyLen) \cup TestKeys
    /\ mid = None
    /\ res = None

\* exportName on a key
ExportNameCall ==
    /\ op = "init"
    /\ op' = "exportName"
    /\ res' = exportName(arg)
    /\ UNCHANGED <<arg, mid, cacheVars>>

NextExport == ExportNameCall

SpecExport == InitExport /\ [][NextExport]_vars

\* C27: the result of exportName holds letters and digits only, and when it is
\* not empty its first character is an upper-case letter.
C27_ExportedName ==
    op = "exportName" =>
        /\ \A i \in 1..Len(res) : res[i] \in Letters \/ IsDigit(res[i])
        /\ res # << >> => IsUpper(res[1])

\* C27 without the first character: letters and digits only, and the results
\* of the unit test
C27_AlphanumericOnly ==
    op = "exportName" =>
        /\ \A i \in 1..Len(res) : res[i] \in Letters \/ IsDigit(res[i])
        /\ arg = <<"u", "s", "e", "r", "_", "n", "a", "m", "e">> => res = <<"U", "s", "e", "r", "N", "a", "m", "e">>
        /\ arg = <<"H", "T", "T", "P", "_", "s", "e", "r", "v", "e", "r", "_", "v", "2">> => res = <<"H", "T", "T", "P", "S", "e", "r", "v", "e", "r", "V", "2">>
        /\ arg = <<"a", "1", " ", "b", "2">> => res = <<"A", "1", "B", "2">>

-----------------------------------------------------------------------------
(* ipv4Range and ipRangeToCIDRs: the CIDR blocks of an address range.  A     *)
(* uint32 is the pair of its two 16-bit halves, and every operation is      *)
(* taken modulo 2^32 as the machine operation is.                            *)

\* one half of a uint32 holds 16 bits
Half == 2 ^ 16

U32(hi, lo) == [hi |-> hi, lo |-> lo]

U32Zero == U32(0, 0)
U32One == U32(0, 1)

\* 1 << 31
U32Top == U32(2 ^ 15, 0)

\* a & b on the lowest n bits of two halves
AndBits[a \in 0..(Half - 1), b \in 0..(Half - 1), n \in 0..16] ==
    IF n = 0 THEN 0 ELSE (a % 2) * (b % 2) + 2 * AndBits[a \div 2, b \div 2, n - 1]

\* a + b, a - b, ^a, a & b, a >> 1 on uint32, each modulo 2^32
Add32(a, b) == U32((a.hi + b.hi + (a.lo + b.lo) \div Half) % Half, (a.lo + b.lo) % Half)
Sub32(a, b) ==
    U32((a.hi - b.hi - (IF a.lo < b.lo THEN 1 ELSE 0) + Half) % Half, (a.lo - b.lo + Half) % Half)
Not32(a) == U32(Half - 1 - a.hi, Half - 1 - a.lo)
And32(a, b) == U32(AndBits[a.hi, b.hi, 16], AndBits[a.lo, b.lo, 16])
Shr1(a) == U32(a.hi \div 2, a.lo \div 2 + (a.hi % 2) * (Half \div 2))

\* a < b on uint32
Less32(a, b) == a.hi < b.hi \/ (a.hi = b.hi /\ a.lo < b.lo)

\* the number of bits of n: the position of its highest set bit, 0 for 0
BitLen[n \in 0..(Half - 1)] == IF n = 0 THEN 0 ELSE 1 + BitLen[n \div 2]

\* bits.Len32
Len32(a) == IF a.hi # 0 THEN 16 + BitLen[a.hi] ELSE BitLen[a.lo]

\* binaryToUint32 / ipToUint32 on the four bytes of an address
ipToUint32(ip) == U32(ip[1] * 256 + ip[2], ip[3] * 256 + ip[4])

\* uint32ToIP(v).String()
uint32ToIP(v) ==
    Join(<<FormatInt(v.hi \div 256), FormatInt(v.hi % 256),
           FormatInt(v.lo \div 256), FormatInt(v.lo % 256)>>, <<".">>)

\* the values of a uint32
U32s == [hi : 0..(Half - 1), lo : 0..(Half - 1)]

\* for size > remaining { size >>= 1 }
Shrink[size \in U32s, remaining \in U32s] ==
    IF Less32(remaining, size) THEN Shrink[Shr1(size), remaining] ELSE size

\* maxSize of one iteration: start & ^(start - 1), or 1 << 31 when that is 0
MaxSizeOf(start) ==
    IF And32(start, Not32(Sub32(start, U32One))) = U32Zero THEN U32Top
    ELSE And32(start, Not32(Sub32(start, U32One)))

\* size of one iteration
SizeOf(start, end) == Shrink[MaxSizeOf(start), Add32(Sub32(end, start), U32One)]

\* prefix of a block of the given size
PrefixOfSize(size) == IF 33 - Len32(size) < 0 THEN 0 ELSE 33 - Len32(size)

\* fmt.Sprintf("%s/%d", uint32ToIP(start).String(), prefix)
BlockText(start, size) == uint32ToIP(start) \o <<"/">> \o FormatInt(PrefixOfSize(size))

\* the blocks the model keeps of the list cidrs
MaxBlocks == 64

MaxAddresses == 8

\* addresses at the ends and in the middle of the address space
Addresses ==
    <<<<0, 0, 0, 0>>, <<255, 255, 255, 255>>, <<0, 0, 0, 1>>, <<255, 255, 255, 254>>,
      <<1, 1, 1, 0>>, <<1, 1, 1, 255>>, <<127, 255, 255, 255>>, <<128, 0, 0, 0>>,
      <<10, 0, 0, 7>>, <<192, 168, 1, 1>>>>

InitIP ==
    /\ InitCache(TRUE)
    /\ op = "init"
    /\ arg \in {[start |-> Addresses[i], end |-> Addresses[j]] : i, j \in 1..MaxAddresses}
    /\ mid = None
    /\ res = None

\* ipv4Range on two parsed addresses, up to the call of ipRangeToCIDRs
Ipv4RangeCall ==
    /\ op = "init"
    /\ IF Less32(ipToUint32(arg.end), ipToUint32(arg.start))
       THEN /\ op' = "return"
            /\ res' = [cidrs |-> << >>, err |-> "start IP must be less than or equal to end IP"]
            /\ mid' = mid
       ELSE /\ op' = "ipRangeToCIDRs"
            /\ mid' = [start |-> ipToUint32(arg.start), end |-> ipToUint32(arg.end), cidrs |-> << >>]
            /\ res' = res
    /\ UNCHANGED <<arg, cacheVars>>

\* one iteration of the loop of ipRangeToCIDRs; the list keeps its first
\* MaxBlocks blocks
LoopBody ==
    /\ op = "ipRangeToCIDRs"
    /\ ~Less32(mid.end, mid.start)
    /\ mid' = [start |-> Add32(mid.start, SizeOf(mid.start, mid.end)),
               end |-> mid.end,
               cidrs |-> IF Len(mid.cidrs) < MaxBlocks
                         THEN Append(mid.cidrs, BlockText(mid.start, SizeOf(mid.start, mid.end)))
                         ELSE mid.cidrs]
    /\ UNCHANGED <<op, arg, res, cacheVars>>

\* the end of the loop: start > end, the list is returned
LoopExit ==
    /\ op = "ipRangeToCIDRs"
    /\ Less32(mid.end, mid.start)
    /\ op' = "return"
    /\ res' = [cidrs |-> mid.cidrs, err |-> ""]
    /\ UNCHANGED <<arg, mid, cacheVars>>

NextIP == Ipv4RangeCall \/ LoopBody \/ LoopExit

SpecIP == InitIP /\ [][NextIP]_vars

\* the loop runs on: a call that can take a step takes it
SpecIPFair == SpecIP /\ WF_vars(NextIP)

\* the prefix length written in a block
PrefixOf(block) == AtoiValue(Cut(block, <<"/">>).after)

\* every block written so far has a prefix length of 0..32
PrefixesInRange ==
    op = "ipRangeToCIDRs" => \A i \in 1..Len(mid.cidrs) : PrefixOf(mid.cidrs[i]) \in 0..32

AllOnes == Not32(U32Zero)

\* C28: for every range start <= end, the ends of the address space included,
\* ipRangeToCIDRs returns, and every block it writes has a prefix length
\* between 0 and 32.
C28_RangeTerminates ==
    /\ [](op = "ipRangeToCIDRs" => <>(op = "return"))
    /\ []PrefixesInRange

\* C28 for ranges that end below 255.255.255.255: the call returns
C28_BelowTopTerminates ==
    (op = "ipRangeToCIDRs" /\ mid.end # AllOnes) ~> (op = "return")

\* C28 for ranges that end below 255.255.255.255: prefixes of 0..32, and the
\* range 1.1.1.0 - 1.1.1.255 is the one block 1.1.1.0/24
C28_BelowTopBlocks ==
    /\ (op = "ipRangeToCIDRs" /\ mid.end # AllOnes) => PrefixesInRange
    /\ (op = "return" /\ arg = [start |-> <<1, 1, 1, 0>>, end |-> <<1, 1, 1, 255>>]) =>
          res.cidrs = <<<<"1", ".", "1", ".", "1", ".", "0", "/", "2", "4">>>>

(***************************************************************************)
(* nextUUIDState: the clock state shared by uuidV1 and uuidV6.  A          *)
(* timestamp is the value of uint64(time.Now().UnixNano()/100) + uuidEpoch *)
(* as a whole; the readings of the wall clock are arbitrary, so the clock  *)
(* may stand still or go backwards between two calls.  The specification   *)
(* keeps the globals in arg, the goroutines in mid and the returned pairs, *)
(* in the order of the returns, in res.                                    *)
(***************************************************************************)
MaxGoroutines == 2
MaxCalls == 3
MaxNow == 3
ClockSeqMask == 16383

Goroutines == 1..MaxGoroutines

\* the readings of uint64(time.Now().UnixNano()/100) + uuidEpoch
ClockReadings == 1..MaxNow

\* init: uuidClockSeq = binary.BigEndian.Uint16(b[:]) & 0x3fff
InitialClockSeqs == {0, 1, ClockSeqMask}

\* a mutex that admits every goroutine at once
NoMutualExclusion(holder) == TRUE

\* uuidMutex.Lock() returns once no goroutine holds the mutex
MutexFree(holder) == holder = 0

\* uuidClockSeq = (uuidClockSeq + 1) & 0x3fff
BumpClockSeq(seq) == (seq + 1) % (ClockSeqMask + 1)

IdleGoroutine == [pc |-> "idle", ts |-> 0]

InitUUID ==
    /\ op = "nextUUIDState"
    /\ \E seq \in InitialClockSeqs :
          arg = [uuidMutex |-> 0, uuidLastTime |-> 0, uuidClockSeq |-> seq, calls |-> 0]
    /\ mid = [g \in Goroutines |-> IdleGoroutine]
    /\ res = <<>>
    /\ InitCache(TRUE)

\* uuidMutex.Lock()
UUIDLock(g) ==
    /\ op = "nextUUIDState"
    /\ mid[g].pc = "idle"
    /\ arg.calls < MaxCalls
    /\ MutexFree(arg.uuidMutex)
    /\ arg' = [arg EXCEPT !.uuidMutex = g, !.calls = @ + 1]
    /\ mid' = [mid EXCEPT ![g].pc = "locked"]
    /\ UNCHANGED <<op, res, cacheVars>>

\* ts := uint64(time.Now().UnixNano()/100) + uuidEpoch
UUIDReadClock(g) ==
    /\ op = "nextUUIDState"
    /\ mid[g].pc = "locked"
    /\ \E t \in ClockReadings : mid' = [mid EXCEPT ![g] = [pc |-> "read", ts |-> t]]
    /\ UNCHANGED <<op, arg, res, cacheVars>>

\* if ts <= uuidLastTime { uuidClockSeq = ...; ts = uuidLastTime + 1 }
UUIDAdvance(g) ==
    /\ op = "nextUUIDState"
    /\ mid[g].pc = "read"
    /\ IF mid[g].ts <= arg.uuidLastTime
       THEN /\ arg' = [arg EXCEPT !.uuidClockSeq = BumpClockSeq(@)]
            /\ mid' = [mid EXCEPT ![g] = [pc |-> "compared", ts |-> arg.uuidLastTime + 1]]
       ELSE /\ arg' = arg
            /\ mid' = [mid EXCEPT ![g].pc = "compared"]
    /\ UNCHANGED <<op, res, cacheVars>>

\* uuidLastTime = ts
UUIDStore(g) ==
    /\ op = "nextUUIDState"
    /\ mid[g].pc = "compared"
    /\ arg' = [arg EXCEPT !.uuidLastTime = mid[g].ts]
    /\ mid' = [mid EXCEPT ![g].pc = "stored"]
    /\ UNCHANGED <<op, res, cacheVars>>

\* return ts, uuidClockSeq, and the deferred uuidMutex.Unlock()
UUIDReturn(g) ==
    /\ op = "nextUUIDState"
    /\ mid[g].pc = "stored"
    /\ res' = Append(res, [ts |-> mid[g].ts, seq |-> arg.uuidClockSeq, by |-> g])
    /\ arg' = [arg EXCEPT !.uuidMutex = 0]
    /\ mid' = [mid EXCEPT ![g] = IdleGoroutine]
    /\ UNCHANGED <<op, cacheVars>>

NextUUID ==
    \E g \in Goroutines :
        UUIDLock(g) \/ UUIDReadClock(g) \/ UUIDAdvance(g) \/ UUIDStore(g) \/ UUIDReturn(g)

SpecUUID == InitUUID /\ [][NextUUID]_vars

\* C30: every call of nextUUIDState returns a timestamp greater than every
\* timestamp returned before it, uuidLastTime is the last returned timestamp
\* whenever no call is running, the clock sequence stays within 14 bits, and
\* no two calls return the same (timestamp, sequence) pair.
C30_StrictlyMonotonic ==
    op = "nextUUIDState" =>
        /\ \A i, j \in 1..Len(res) : i < j => res[i].ts < res[j].ts
        /\ \A i, j \in 1..Len(res) :
              i # j => <<res[i].ts, res[i].seq>> # <<res[j].ts, res[j].seq>>
        /\ \A i \in 1..Len(res) : res[i].seq \in 0..ClockSeqMask
        /\ arg.uuidClockSeq \in 0..ClockSeqMask
        /\ (arg.uuidMutex = 0 /\ res # <<>>) => arg.uuidLastTime = res[Len(res)].ts

\* two goroutines have called while the clock went backwards, and the clock
\* sequence has wrapped from 0x3fff to 0
C30_Witness ==
    /\ op = "nextUUIDState"
    /\ Len(res) = 3
    /\ res[1].by # res[2].by
    /\ res[1].ts = MaxNow
    /\ res[2].ts = MaxNow + 1
    /\ res[3].ts = MaxNow + 2
    /\ res[1].seq = ClockSeqMask
    /\ res[2].seq = 0
    /\ res[3].seq = 1
    /\ arg.uuidMutex = 0

=============================================================================
